---- MODULE Spec2Model ----
(***************************************************************************)
(* OpenGCodeGen: the toolpath generation core (src/generator.js, class     *)
(* GCodeGenerator).  generate() turns a Parameter Record into an ordered   *)
(* list of motion commands.  The model runs generate() as a state machine: *)
(* the header, one step per iteration of the depth loop, one step per      *)
(* (Z, offset) pass, the facing rows, the footer.                          *)
(*                                                                         *)
(* Numbers.  JavaScript computes in doubles and prints every coordinate    *)
(* with toFixed(3).  The model computes in fixed point: lengths are        *)
(* integers in micrometres (0.001 mm, the resolution of toFixed(3)),       *)
(* angles are integers in millidegrees.  Where the code divides, the model *)
(* keeps numerator and denominator and rounds once, where the code prints  *)
(* (ToFixed3).  cos, sin and tan come from tables scaled by 10^5.          *)
(***************************************************************************)
EXTENDS Integers, Sequences, FiniteSets, TLC

VARIABLES p, pc, lines, currentZ, passOffsets, idx, y, cutDir, given, returned,
          sketcher, event

\* the generator and its caller
generatorVars ==
    <<p, pc, lines, currentZ, passOffsets, idx, y, cutDir, given, returned>>

\* the sketch canvas: the Sketcher object and the last event it handled
sketcherVars == <<sketcher, event>>

vars == <<p, pc, lines, currentZ, passOffsets, idx, y, cutDir, given, returned,
          sketcher, event>>

----------------------------------------------------------------------------
(* Fixed-point arithmetic *)

Abs(v) == IF v < 0 THEN -v ELSE v

Max(a, b) == IF a > b THEN a ELSE b

Min(a, b) == IF a < b THEN a ELSE b

\* n / d rounded to the nearest integer, halves away from zero (d # 0)
RoundDiv(n, d) ==
    LET nn == IF d < 0 THEN -n ELSE n
        dd == Abs(d)
        q  == Abs(nn) \div dd
        up == IF 2 * (Abs(nn) % dd) >= dd THEN q + 1 ELSE q
    IN  IF nn >= 0 THEN up ELSE -up

\* Number.prototype.toFixed(3) of the value n/d (in micrometres): the printed
\* number, again in micrometres
ToFixed3(n, d) == RoundDiv(n, d)

\* Math.ceil(n / d) for n >= 0, d > 0
CeilDiv(n, d) == (n + d - 1) \div d

RECURSIVE SqrtSearch(_, _, _)
SqrtSearch(n, lo, hi) ==
    IF lo >= hi THEN lo
    ELSE LET mid == (lo + hi + 1) \div 2
         IN  IF mid * mid <= n THEN SqrtSearch(n, mid, hi)
                               ELSE SqrtSearch(n, lo, mid - 1)

\* Math.sqrt on a non-negative integer below 2^31 (floor of the root)
Sqrt(n) == SqrtSearch(n, 0, 46340)

\* cos of k half-degrees, k = 0..180, times 10^5
CosTable ==
    <<
       100000, 99996, 99985, 99966, 99939, 99905, 99863, 99813, 99756, 99692, 99619, 99540,
       99452, 99357, 99255, 99144, 99027, 98902, 98769, 98629, 98481, 98325, 98163, 97992,
       97815, 97630, 97437, 97237, 97030, 96815, 96593, 96363, 96126, 95882, 95630, 95372,
       95106, 94832, 94552, 94264, 93969, 93667, 93358, 93042, 92718, 92388, 92050, 91706,
       91355, 90996, 90631, 90259, 89879, 89493, 89101, 88701, 88295, 87882, 87462, 87036,
       86603, 86163, 85717, 85264, 84805, 84339, 83867, 83389, 82904, 82413, 81915, 81412,
       80902, 80386, 79864, 79335, 78801, 78261, 77715, 77162, 76604, 76041, 75471, 74896,
       74314, 73728, 73135, 72537, 71934, 71325, 70711, 70091, 69466, 68835, 68200, 67559,
       66913, 66262, 65606, 64945, 64279, 63608, 62932, 62251, 61566, 60876, 60182, 59482,
       58779, 58070, 57358, 56641, 55919, 55194, 54464, 53730, 52992, 52250, 51504, 50754,
       50000, 49242, 48481, 47716, 46947, 46175, 45399, 44620, 43837, 43051, 42262, 41469,
       40674, 39875, 39073, 38268, 37461, 36650, 35837, 35021, 34202, 33381, 32557, 31730,
       30902, 30071, 29237, 28402, 27564, 26724, 25882, 25038, 24192, 23345, 22495, 21644,
       20791, 19937, 19081, 18224, 17365, 16505, 15643, 14781, 13917, 13053, 12187, 11320,
       10453, 9585, 8716, 7846, 6976, 6105, 5234, 4362, 3490, 2618, 1745, 873,
       0
    >>

\* tan of d degrees, d = 1..89, times 10^5
TanTable ==
    <<
       1746, 3492, 5241, 6993, 8749, 10510, 12278, 14054, 15838, 17633, 19438, 21256,
       23087, 24933, 26795, 28675, 30573, 32492, 34433, 36397, 38386, 40403, 42447, 44523,
       46631, 48773, 50953, 53171, 55431, 57735, 60086, 62487, 64941, 67451, 70021, 72654,
       75355, 78129, 80978, 83910, 86929, 90040, 93252, 96569, 100000, 103553, 107237, 111061,
       115037, 119175, 123490, 127994, 132704, 137638, 142815, 148256, 153986, 160033, 166428, 173205,
       180405, 188073, 196261, 205030, 214451, 224604, 235585, 247509, 260509, 274748, 290421, 307768,
       327085, 348741, 373205, 401078, 433148, 470463, 514455, 567128, 631375, 711537, 814435, 951436,
       1143005, 1430067, 1908114, 2863625, 5728996
    >>

\* cos of k half-degrees for any k in 0..720, times 10^5
CosHalfDeg(k) ==
    IF k <= 180 THEN CosTable[k + 1]
    ELSE IF k <= 360 THEN -CosTable[360 - k + 1]
    ELSE IF k <= 540 THEN -CosTable[k - 360 + 1]
    ELSE CosTable[720 - k + 1]

\* Math.cos(a * Math.PI / 180) for a in millidegrees, times 10^5
Cos(a) ==
    LET m  == a % 360000
        k  == m \div 500
        c0 == CosHalfDeg(k)
        c1 == CosHalfDeg(k + 1)
    IN  IF m % 500 = 0 THEN c0 ELSE c0 + RoundDiv((c1 - c0) * (m % 500), 500)

\* Math.sin(a * Math.PI / 180) for a in millidegrees, times 10^5
Sin(a) == Cos(a - 90000)

----------------------------------------------------------------------------
(* Output lines.  A line is a record: the command word g, the words it      *)
(* carries (ax) with their values, and the place of generate() that         *)
(* emitted it (site; the text of a comment line stands for itself); nan is  *)
(* the set of words whose value is not a number.                            *)

Line(g, site, ax, x, yy, z, i, j, f) ==
    [g |-> g, site |-> site, ax |-> ax,
     x |-> x, y |-> yy, z |-> z, i |-> i, j |-> j, f |-> f, nan |-> {}]

\* the line with the value of word a printed as `NaN` (Number.prototype.toFixed
\* of NaN); the field of the word is then 0
NotANumber(line, a) == [line EXCEPT !.nan = @ \cup {a}, !.z = IF a = "Z" THEN 0 ELSE @]

\* `; ...` comment lines; z carries the number a pass comment prints
Comment(site, z) == Line(";", site, {}, 0, 0, z, 0, 0, 0)

\* a bare word: G21, G90, M5, M30
Word(g, site) == Line(g, site, {}, 0, 0, 0, 0, 0, 0)

\* `G1 X.. Y.. F..`
G1XY(site, x, yy, f) == Line("G1", site, {"X", "Y", "F"}, x, yy, 0, 0, 0, f)

\* `G1 Z.. F..`
G1Z(site, z, f) == Line("G1", site, {"Z", "F"}, 0, 0, z, 0, 0, f)

\* `G0 Z..`
G0Z(site, z) == Line("G0", site, {"Z"}, 0, 0, z, 0, 0, 0)

\* `G1 X.. Y.. Z.. F..`
G1XYZ(site, x, yy, z, f) ==
    Line("G1", site, {"X", "Y", "Z", "F"}, x, yy, z, 0, 0, f)

\* `G2/G3 X.. Y.. I.. J.. F..`
Arc(g, site, x, yy, i, j, f) ==
    Line(g, site, {"X", "Y", "I", "J", "F"}, x, yy, 0, i, j, f)

\* `G3 X.. Y.. Z.. I.. J.. F..`
ArcZ(g, site, x, yy, z, i, j, f) ==
    Line(g, site, {"X", "Y", "Z", "I", "J", "F"}, x, yy, z, i, j, f)

\* the same line, emitted at the named place of generate()
At(site, line) == [line EXCEPT !.site = site]

AtAll(site, ls) == [k \in 1..Len(ls) |-> At(site, ls[k])]

Pt(x, yy) == [x |-> x, y |-> yy]

----------------------------------------------------------------------------
(* The Parameter Record (this.params) *)

RectTab(side, offset) == [side |-> side, offset |-> offset, angle |-> 0]

CircleTab(angle) == [side |-> "", offset |-> 0, angle |-> angle]

Default ==
    [shape |-> "rectangle", operation |-> "outside", opType |-> "contour",
     width |-> 20000, height |-> 10000, diameter |-> 20000,
     sketchPoints |-> <<>>,
     textObjects |-> <<>>,
     toolDiameter |-> 2000, targetDepth |-> 2000, passDepth |-> 1000,
     feedRate |-> 500, spindleSpeed |-> 10000, safeZ |-> 5000,
     enableRapid |-> FALSE, rapidXY |-> 3000, rapidZ |-> 1200,
     enableRoughing |-> FALSE, roughingPasses |-> 0, roughingStepover |-> 0,
     leadType |-> "none", leadInLen |-> 0, leadOutLen |-> 0,
     enableTabs |-> FALSE, tabWidth |-> 0, tabThickness |-> 0, tabs |-> <<>>,
     enableRamp |-> FALSE, rampAngle |-> 0, rampClearance |-> 0,
     stepover |-> 4000, facingDirection |-> "both",
     passExtX |-> 0, passExtY |-> 0,
     origin |-> "stock-center", stockWidth |-> 40000, stockHeight |-> 30000,
     shapeWidth |-> 20000, shapeHeight |-> 10000]

----------------------------------------------------------------------------
(* Motion emitter helpers *)

\* a rapid in Z whatever enableRapid says (C17 fails of it)
getRapidZUncontrolled(z) ==
    G0Z("", ToFixed3(z, 1))

getRapidZ(z) ==
    IF p.enableRapid THEN G1Z("", ToFixed3(z, 1), p.rapidZ)
                     ELSE G0Z("", ToFixed3(z, 1))

getRapidXY(x, yy) ==
    IF p.enableRapid
    THEN G1XY("", ToFixed3(x, 1), ToFixed3(yy, 1), p.rapidXY)
    ELSE Line("G0", "", {"X", "Y"}, ToFixed3(x, 1), ToFixed3(yy, 1), 0, 0, 0, 0)

\* originVal.replace('shape-', '') / originVal.replace('stock-', '')
OriginPos(originVal) ==
    CASE originVal \in {"stock-center", "shape-center"} -> "center"
      [] originVal \in {"stock-bottom-left", "shape-bottom-left"} -> "bottom-left"
      [] originVal \in {"stock-bottom-right", "shape-bottom-right"} -> "bottom-right"
      [] originVal \in {"stock-top-left", "shape-top-left"} -> "top-left"
      [] originVal \in {"stock-top-right", "shape-top-right"} -> "top-right"
      [] OTHER -> originVal

\* the translation taken from the stock size whatever the origin (C19 fails
\* of it)
getTranslationStockOnly ==
    LET pos == OriginPos(IF p.origin = "" THEN "stock-center" ELSE p.origin)
        w   == p.stockWidth
        h   == p.stockHeight
    IN  CASE pos = "bottom-left"  -> Pt(w \div 2, h \div 2)
          [] pos = "bottom-right" -> Pt(-(w \div 2), h \div 2)
          [] pos = "top-left"     -> Pt(w \div 2, -(h \div 2))
          [] pos = "top-right"    -> Pt(-(w \div 2), -(h \div 2))
          [] OTHER                -> Pt(0, 0)

\* the stock and shape dimensions are even numbers of micrometres: w/2 is exact
getTranslation ==
    LET originVal == IF p.origin = "" THEN "stock-center" ELSE p.origin
        isShape   == originVal \in {"shape-center", "shape-bottom-left",
                                    "shape-bottom-right", "shape-top-left",
                                    "shape-top-right"}
        w   == IF isShape THEN p.shapeWidth ELSE p.stockWidth
        h   == IF isShape THEN p.shapeHeight ELSE p.stockHeight
        pos == OriginPos(originVal)
    IN  CASE pos = "bottom-left"  -> Pt(w \div 2, h \div 2)
          [] pos = "bottom-right" -> Pt(-(w \div 2), h \div 2)
          [] pos = "top-left"     -> Pt(w \div 2, -(h \div 2))
          [] pos = "top-right"    -> Pt(-(w \div 2), -(h \div 2))
          [] OTHER                -> Pt(0, 0)

\* width / 2 + offset and height / 2 + offset of the offset rectangle
HalfW(shape, offset) == p.width \div 2 + offset

HalfH(shape, offset) ==
    (IF shape = "square" THEN p.width ELSE p.height) \div 2 + offset

\* (diameter / 2) + offset
Radius(offset) == p.diameter \div 2 + offset

getStartPosition(shape, offset) ==
    LET t == getTranslation
    IN  IF shape \in {"square", "rectangle"}
        THEN Pt(-HalfW(shape, offset) + t.x, -HalfH(shape, offset) + t.y)
        ELSE IF shape = "circle"
        THEN Pt(Radius(offset) + t.x, 0 + t.y)
        ELSE IF shape = "sketch" /\ Len(p.sketchPoints) > 0
        THEN Pt(p.sketchPoints[1].x + t.x, p.sketchPoints[1].y + t.y)
        ELSE Pt(0, 0)

----------------------------------------------------------------------------
(* Lead-in / lead-out.  A tangent is the vector (x/d, y/d).                *)

Tangent(x, yy, d) == [x |-> x, y |-> yy, d |-> d]

\* the unit vector from a to b ({0,0} when the points coincide); the
\* magnitude is the integer square root, exact for the polygons of the model
UnitVector(a, b) ==
    LET dx  == b.x - a.x
        dy  == b.y - a.y
        mag == Sqrt(dx * dx + dy * dy)
    IN  IF mag > 0 THEN Tangent(dx, dy, mag) ELSE Tangent(0, 0, 1)

\* tangent at the start of the cut (getLeadIn, lines 676-694)
LeadInTangent(shape) ==
    IF shape \in {"square", "rectangle"} THEN Tangent(1, 0, 1)
    ELSE IF shape = "circle" THEN Tangent(0, 1, 1)
    ELSE IF shape = "sketch" /\ Len(p.sketchPoints) > 1
    THEN UnitVector(p.sketchPoints[1], p.sketchPoints[2])
    ELSE Tangent(0, 0, 1)

\* the lead-out taken along the lead-in tangent (C10 fails of it)
LeadOutTangentAsIn(shape) ==
    LeadInTangent(shape)

\* tangent at the end of the cut (getLeadOut, lines 846-864)
LeadOutTangent(shape) ==
    IF shape \in {"square", "rectangle"} THEN Tangent(0, -1, 1)
    ELSE IF shape = "circle" THEN Tangent(0, 1, 1)
    ELSE IF shape = "sketch" /\ Len(p.sketchPoints) > 1
    THEN UnitVector(p.sketchPoints[Len(p.sketchPoints)], p.sketchPoints[1])
    ELSE Tangent(0, 0, 1)

\* startPos + sign * tangent * len, as printed
AlongTangent(startPos, tg, sign, len) ==
    Pt(ToFixed3(startPos.x * tg.d + sign * tg.x * len, tg.d),
       ToFixed3(startPos.y * tg.d + sign * tg.y * len, tg.d))

NoLead == [null |-> TRUE, start |-> Pt(0, 0), moves |-> <<>>]

Lead(start, moves) == [null |-> FALSE, start |-> start, moves |-> moves]

getLeadIn(shape, startPos, offset, pp) ==
    IF pp.leadType \in {"", "none"} \/ pp.leadInLen = 0 THEN NoLead
    ELSE
    LET len  == pp.leadInLen
        feed == pp.feedRate
        tg   == LeadInTangent(shape)
        toStart(g, i, j) ==
            IF g = "G1"
            THEN G1XY("leadIn", ToFixed3(startPos.x, 1), ToFixed3(startPos.y, 1), feed)
            ELSE Arc(g, "leadIn", ToFixed3(startPos.x, 1), ToFixed3(startPos.y, 1),
                     ToFixed3(i, 1), ToFixed3(j, 1), feed)
    IN  IF pp.leadType = "linear"
        THEN Lead(AlongTangent(startPos, tg, -1, len), <<toStart("G1", 0, 0)>>)
        ELSE IF pp.leadType = "radius" /\ shape = "circle"
        THEN \* the normal at 3 o'clock is (1, 0)
             IF pp.operation \in {"outside", "center"}
             THEN LET centerX   == startPos.x + len
                      centerY   == startPos.y
                      leadStart == Pt(centerX, centerY - len)
                  IN  Lead(leadStart, <<toStart("G3", centerX - leadStart.x,
                                                 centerY - leadStart.y)>>)
             ELSE LET cX        == startPos.x - len
                      cY        == startPos.y
                      leadStart == Pt(cX, cY - len)
                  IN  Lead(leadStart, <<toStart("G3", cX - leadStart.x,
                                                 cY - leadStart.y)>>)
        ELSE IF pp.leadType = "radius"
        THEN Lead(AlongTangent(startPos, tg, -1, len), <<toStart("G1", 0, 0)>>)
        ELSE Lead(startPos, <<>>)

\* no lead-out unless the lead type is linear (C12 fails of it)
getLeadOutNoFallback(shape, startPos, offset, pp) ==
    IF pp.leadType = "linear" /\ pp.leadOutLen # 0
    THEN LET end == AlongTangent(startPos, LeadOutTangent(shape), 1, pp.leadOutLen)
         IN  Lead(startPos, <<G1XY("leadOut", end.x, end.y, pp.feedRate)>>)
    ELSE NoLead

getLeadOut(shape, startPos, offset, pp) ==
    IF pp.leadType \in {"", "none"} \/ pp.leadOutLen = 0 THEN NoLead
    ELSE
    LET len  == pp.leadOutLen
        feed == pp.feedRate
        tg   == LeadOutTangent(shape)
        end  == AlongTangent(startPos, tg, 1, len)
        linear == G1XY("leadOut", end.x, end.y, feed)
    IN  IF pp.leadType = "linear" THEN Lead(startPos, <<linear>>)
        ELSE IF pp.leadType = "radius" /\ shape = "circle"
        THEN LET isInside == pp.operation = "inside"
                 cx == IF isInside THEN -1 ELSE 1
                 cy == 0
                 cX == startPos.x + cx * len
                 cY == startPos.y + cy * len
                 I  == cX - startPos.x
                 J  == cY - startPos.y
                 relEndX == IF isInside THEN cy * len ELSE -cy * len
                 relEndY == IF isInside THEN -cx * len ELSE cx * len
                 dir == IF isInside THEN "G3" ELSE "G2"
             IN  Lead(startPos,
                      <<Arc(dir, "leadOut", ToFixed3(cX + relEndX, 1),
                            ToFixed3(cY + relEndY, 1), ToFixed3(I, 1),
                            ToFixed3(J, 1), feed)>>)
        ELSE IF pp.leadType = "radius" THEN Lead(startPos, <<linear>>)
        ELSE Lead(startPos, <<>>)

----------------------------------------------------------------------------
(* Exact fractions n/d (d > 0, lowest terms) for the values the code       *)
(* computes by division before it prints them.                             *)

RECURSIVE GCD(_, _)
GCD(a, b) == IF b = 0 THEN a ELSE GCD(b, a % b)

R(n, d) ==
    LET g == GCD(Abs(n), Abs(d))
        s == IF d < 0 THEN -1 ELSE 1
    IN  [n |-> s * (n \div g), d |-> s * (d \div g)]

RInt(k) == [n |-> k, d |-> 1]

RAdd(a, b) == R(a.n * b.d + b.n * a.d, a.d * b.d)

RSub(a, b) == R(a.n * b.d - b.n * a.d, a.d * b.d)

RMul(a, b) ==
    LET g1 == GCD(Abs(a.n), b.d)
        g2 == GCD(Abs(b.n), a.d)
    IN  R((a.n \div g1) * (b.n \div g2), (a.d \div g2) * (b.d \div g1))

\* a / b for b > 0
RDiv(a, b) == RMul(a, [n |-> b.d, d |-> b.n])

RLess(a, b) == a.n * b.d < b.n * a.d

RMax(a, b) == IF RLess(a, b) THEN b ELSE a

RMin(a, b) == IF RLess(b, a) THEN b ELSE a

\* toFixed(3) of a fraction
RFix(a) == ToFixed3(a.n, a.d)

----------------------------------------------------------------------------
(* Geometry path builders: getShapePath *)

\* `if (p.enableRapid) G1 Z<tabTopZ> F<rapidZ> else G0 Z<tabTopZ>`
TabLift(tabTopZ) ==
    IF p.enableRapid THEN G1Z("lift", ToFixed3(tabTopZ, 1), p.rapidZ)
                     ELSE G0Z("lift", ToFixed3(tabTopZ, 1))

\* -(p.targetDepth - p.tabThickness)
TabTopZ == -(p.targetDepth - p.tabThickness)

\* the 0.001 tolerance of the tab-pass test, in micrometres
TabEps == 1

\* the tab-pass test taken above the tab top instead of below it (C26 fails
\* of it)
isTabPassAbove(curZ, rampData) ==
    /\ rampData.null
    /\ p.enableTabs
    /\ Len(p.tabs) > 0
    /\ curZ > TabTopZ - TabEps

\* the tab-pass test with an inclusive comparison (C4 fails of it)
isTabPassInclusive(curZ, rampData) ==
    /\ rampData.null
    /\ p.enableTabs
    /\ Len(p.tabs) > 0
    /\ curZ <= TabTopZ - TabEps

isTabPass(curZ, rampData) ==
    /\ rampData.null
    /\ p.enableTabs
    /\ Len(p.tabs) > 0
    /\ curZ < TabTopZ - TabEps

\* interpolate(p1, p2, t) for a fraction t
interpolate(p1, p2, t) ==
    [x |-> RAdd(RInt(p1.x), RMul(RInt(p2.x - p1.x), t)),
     y |-> RAdd(RInt(p1.y), RMul(RInt(p2.y - p1.y), t))]

\* p.tabs.filter(tb => tb.side === name)
RECURSIVE TabsOnSide(_, _)
TabsOnSide(tabs, name) ==
    IF tabs = <<>> THEN <<>>
    ELSE IF Head(tabs).side = name
    THEN <<Head(tabs)>> \o TabsOnSide(Tail(tabs), name)
    ELSE TabsOnSide(Tail(tabs), name)

\* insert tab e into the sorted sequence s after every tab whose field f is
\* not greater
RECURSIVE Insert(_, _, _)
Insert(s, e, f) ==
    IF s = <<>> THEN <<e>>
    ELSE IF Head(s)[f] <= e[f] THEN <<Head(s)>> \o Insert(Tail(s), e, f)
    ELSE <<e>> \o s

\* the tabs left in input order (C7 fails of it)
SortNone(s, f) ==
    s

\* Array.prototype.sort((a, b) => a[f] - b[f]) on a copy: a stable sort
RECURSIVE Sort(_, _)
Sort(s, f) ==
    IF s = <<>> THEN <<>>
    ELSE Insert(Sort(SubSeq(s, 1, Len(s) - 1), f), s[Len(s)], f)

\* the sides in clockwise order, left side first (C5 fails of it)
RectSidesClockwise(shape, offset) ==
    LET w  == HalfW(shape, offset)
        h  == HalfH(shape, offset)
        bl == Pt(-w, -h)
        br == Pt(w, -h)
        tr == Pt(w, h)
        tl == Pt(-w, h)
    IN  <<[name |-> "left",   start |-> bl, end |-> tl, len |-> h * 2],
          [name |-> "top",    start |-> tl, end |-> tr, len |-> w * 2],
          [name |-> "right",  start |-> tr, end |-> br, len |-> h * 2],
          [name |-> "bottom", start |-> br, end |-> bl, len |-> w * 2]>>

\* the sides of the offset rectangle in cut order
RectSides(shape, offset) ==
    LET w  == HalfW(shape, offset)
        h  == HalfH(shape, offset)
        bl == Pt(-w, -h)
        br == Pt(w, -h)
        tr == Pt(w, h)
        tl == Pt(-w, h)
    IN  <<[name |-> "bottom", start |-> bl, end |-> br, len |-> w * 2],
          [name |-> "right",  start |-> br, end |-> tr, len |-> h * 2],
          [name |-> "top",    start |-> tr, end |-> tl, len |-> w * 2],
          [name |-> "left",   start |-> tl, end |-> bl, len |-> h * 2]>>

\* span of a tab on a side: [dStart, dEnd], distances from the side's start
TabSpan(side, tab) ==
    LET dist     == R(side.len * tab.offset, 100)
        tabHalfW == R(p.tabWidth, 2)
    IN  [dStart |-> RMax(RInt(0), RSub(dist, tabHalfW)),
         dEnd   |-> RMin(RInt(side.len), RAdd(dist, tabHalfW))]

\* body of sideTabs.forEach: the four moves of one tab, or nothing
TabHop(side, tab, feedRate, curZ) ==
    LET t    == getTranslation
        span == TabSpan(side, tab)
    IN  IF RLess(span.dStart, span.dEnd)
        THEN LET pStart == interpolate(side.start, side.end,
                                       RDiv(span.dStart, RInt(side.len)))
                 pEnd   == interpolate(side.start, side.end,
                                       RDiv(span.dEnd, RInt(side.len)))
             IN  <<G1XY("cut", RFix(RAdd(pStart.x, RInt(t.x))),
                        RFix(RAdd(pStart.y, RInt(t.y))), feedRate),
                   TabLift(TabTopZ),
                   G1XY("tab", RFix(RAdd(pEnd.x, RInt(t.x))),
                        RFix(RAdd(pEnd.y, RInt(t.y))), feedRate),
                   G1Z("replunge", ToFixed3(curZ, 1), p.feedRate \div 2)>>
        ELSE <<>>

RECURSIVE TabHops(_, _, _, _)
TabHops(side, sideTabs, feedRate, curZ) ==
    IF sideTabs = <<>> THEN <<>>
    ELSE TabHop(side, Head(sideTabs), feedRate, curZ)
         \o TabHops(side, Tail(sideTabs), feedRate, curZ)

\* body of sides.forEach
RectSide(side, feedRate, curZ, tabPass) ==
    LET t        == getTranslation
        sideTabs == IF tabPass THEN TabsOnSide(p.tabs, side.name) ELSE <<>>
        sideEnd  == G1XY("cut", ToFixed3(side.end.x + t.x, 1),
                         ToFixed3(side.end.y + t.y, 1), feedRate)
    IN  IF sideTabs = <<>> THEN <<sideEnd>>
        ELSE TabHops(side, Sort(sideTabs, "offset"), feedRate, curZ)
             \o <<sideEnd>>

RectPath(shape, offset, feedRate, curZ, tabPass) ==
    LET sides == RectSides(shape, offset)
    IN  RectSide(sides[1], feedRate, curZ, tabPass)
        \o RectSide(sides[2], feedRate, curZ, tabPass)
        \o RectSide(sides[3], feedRate, curZ, tabPass)
        \o RectSide(sides[4], feedRate, curZ, tabPass)

\* the sketch polyline: points 1..n-1, then back to point 0
SketchPath(feedRate) ==
    LET t   == getTranslation
        pts == p.sketchPoints
        n   == Len(pts)
        to(k) == G1XY("cut", ToFixed3(pts[k].x + t.x, 1),
                      ToFixed3(pts[k].y + t.y, 1), feedRate)
    IN  IF n > 1 THEN [k \in 1..(n - 1) |-> to(k + 1)] \o <<to(1)>>
        ELSE <<>>


\* getCoords(angleDeg) of the tabbed circle, as printed; angle in millidegrees
getCoords(angle, r) ==
    LET t == getTranslation
    IN  Pt(t.x + RoundDiv(r * Cos(angle), 100000),
           t.y + RoundDiv(r * Sin(angle), 100000))

\* addArc(startAng, endAng): G3 to endAng, I/J from the point at startAng to
\* the centre (t.x, t.y)
addArc(site, startAng, endAng, r, feedRate) ==
    LET end == getCoords(endAng, r)
    IN  Arc("G3", site, end.x, end.y,
            RoundDiv(-r * Cos(startAng), 100000),
            RoundDiv(-r * Sin(startAng), 100000), feedRate)

\* ((p.tabWidth / r) * (180 / Math.PI)) / 2 in millidegrees, for r # 0
\* (90000 / pi = 28647.9)
HalfAngleW(r) == RoundDiv(p.tabWidth * 28648, r)

\* sortedTabs.forEach: the moves of the tabs from currentAngle on, and the
\* angle reached.  With r = 0 the half width is infinite or NaN and
\* `startA > currentAngle` is false for every tab.
RECURSIVE CircleTabs(_, _, _, _, _)
CircleTabs(sortedTabs, currentAngle, r, feedRate, curZ) ==
    IF sortedTabs = <<>> THEN [moves |-> <<>>, angle |-> currentAngle]
    ELSE IF r = 0
    THEN CircleTabs(Tail(sortedTabs), currentAngle, r, feedRate, curZ)
    ELSE
    LET tab    == Head(sortedTabs)
        startA == tab.angle * 1000 - HalfAngleW(r)
        endA   == tab.angle * 1000 + HalfAngleW(r)
    IN  IF startA > currentAngle
        THEN LET rest == CircleTabs(Tail(sortedTabs), endA, r, feedRate, curZ)
             IN  [moves |-> <<addArc("cut", currentAngle, startA, r, feedRate),
                              TabLift(TabTopZ),
                              addArc("tab", startA, endA, r, feedRate),
                              G1Z("replunge", ToFixed3(curZ, 1), p.feedRate \div 2)>>
                            \o rest.moves,
                  angle |-> rest.angle]
        ELSE CircleTabs(Tail(sortedTabs), currentAngle, r, feedRate, curZ)

\* the tabbed circle without the final arc to 360 degrees (C9 fails of it)
CirclePathOpen(offset, feedRate, curZ, tabPass) ==
    LET t == getTranslation
        r == Radius(offset)
    IN  IF ~tabPass
        THEN <<Arc("G3", "cut", ToFixed3(r + t.x, 1), ToFixed3(0 + t.y, 1),
                   ToFixed3(-r, 1), ToFixed3(0, 1), feedRate)>>
        ELSE CircleTabs(Sort(p.tabs, "angle"), 0, r, feedRate, curZ).moves

CirclePath(offset, feedRate, curZ, tabPass) ==
    LET t == getTranslation
        r == Radius(offset)
    IN  IF ~tabPass
        THEN <<Arc("G3", "cut", ToFixed3(r + t.x, 1), ToFixed3(0 + t.y, 1),
                   ToFixed3(-r, 1), ToFixed3(0, 1), feedRate)>>
        ELSE LET done == CircleTabs(Sort(p.tabs, "angle"), 0, r, feedRate, curZ)
             IN  done.moves
                 \o (IF done.angle < 360000
                     THEN <<addArc("cut", done.angle, 360000, r, feedRate)>>
                     ELSE <<>>)

----------------------------------------------------------------------------
(* Ramp planner: getShapePath with rampData *)

RampData(startZ, targetZ, angle) ==
    [null |-> FALSE, startZ |-> startZ, targetZ |-> targetZ, angle |-> angle]

NoRamp == [null |-> TRUE, startZ |-> 0, targetZ |-> 0, angle |-> 0]

\* Math.abs(totalDrop) / Math.tan(angleRad), in micrometres (angle in whole
\* degrees, 1..89)
DistNeeded(totalDrop, angle) == RoundDiv(Abs(totalDrop) * 100000, TanTable[angle])

\* half the perimeter (C13 fails of it)
PerimeterHalf(shape, offset) ==
    IF shape = "circle" THEN RoundDiv(355 * Abs(Radius(offset)), 113)
    ELSE Abs(2 * HalfW(shape, offset)) + Abs(2 * HalfH(shape, offset))

\* perimeter of the shape at the offset; 1 (mm) when it is not positive
Perimeter(shape, offset) ==
    LET raw == IF shape = "circle"
               THEN RoundDiv(2 * 355 * Abs(Radius(offset)), 113)
               ELSE IF shape \in {"square", "rectangle"}
               THEN Abs(2 * HalfW(shape, offset)) * 2
                    + Abs(2 * HalfH(shape, offset)) * 2
               ELSE 0
    IN  IF raw <= 0 THEN 1000 ELSE raw

\* sides.forEach of one ramp loop: side k..4, the cursor before side k
RECURSIVE RampSides(_, _, _, _, _, _)
RampSides(sides, k, zCursor, dropForThisLoop, totalLen, feedRate) ==
    IF k > Len(sides) THEN <<>>
    ELSE IF totalLen = 0
    THEN \* side.len / totalLen is 0 / 0: the fraction, the drop of the side and
         \* from then on the Z cursor are NaN
         LET t == getTranslation
         IN  [j \in 1..(Len(sides) - k + 1) |->
                NotANumber(G1XYZ("ramp", ToFixed3(sides[k + j - 1].end.x + t.x, 1),
                                 ToFixed3(sides[k + j - 1].end.y + t.y, 1), 0,
                                 feedRate), "Z")]
    ELSE LET t         == getTranslation
             side      == sides[k]
             fraction  == R(Abs(side.len), totalLen)
             zDropSide == RMul(dropForThisLoop, fraction)
             z         == RAdd(zCursor, zDropSide)
         IN  <<G1XYZ("ramp", ToFixed3(side.end.x + t.x, 1),
                     ToFixed3(side.end.y + t.y, 1), RFix(z), feedRate)>>
             \o RampSides(sides, k + 1, z, dropForThisLoop, totalLen, feedRate)

\* for (let l = 0; l < loops; l++): loops l..loops-1, the cursor before loop l
RECURSIVE RampLoops(_, _, _, _, _, _, _)
RampLoops(shape, offset, feedRate, rampData, l, loops, zCursor) ==
    IF l >= loops THEN <<>>
    ELSE
    LET t               == getTranslation
        dropPerLoop     == R(rampData.targetZ - rampData.startZ, loops)
        loopEndZ        == RAdd(zCursor, dropPerLoop)
        targetZForLoop  == IF l = loops - 1 THEN RInt(rampData.targetZ)
                                            ELSE loopEndZ
        dropForThisLoop == RSub(targetZForLoop, zCursor)
        r               == Radius(offset)
        sides           == RectSides(shape, offset)
        totalLen        == Abs(sides[1].len) + Abs(sides[2].len)
                           + Abs(sides[3].len) + Abs(sides[4].len)
        moves ==
            IF shape = "circle"
            THEN <<ArcZ("G3", "ramp", ToFixed3(r + t.x, 1), ToFixed3(0 + t.y, 1),
                        RFix(targetZForLoop), ToFixed3(-r, 1), ToFixed3(0, 1),
                        feedRate)>>
            ELSE IF shape \in {"square", "rectangle"}
            THEN RampSides(sides, 1, zCursor, dropForThisLoop, totalLen, feedRate)
            ELSE <<>>
    IN  moves \o RampLoops(shape, offset, feedRate, rampData, l + 1, loops,
                           targetZForLoop)

RampPath(shape, offset, feedRate, rampData) ==
    LET totalDrop  == rampData.targetZ - rampData.startZ
        distNeeded == DistNeeded(totalDrop, rampData.angle)
        loops      == CeilDiv(distNeeded, Perimeter(shape, offset))
    IN  RampLoops(shape, offset, feedRate, rampData, 0, loops,
                  RInt(rampData.startZ))

getShapePath(shape, offset, feedRate, curZ, rampData) ==
    IF ~rampData.null THEN RampPath(shape, offset, feedRate, rampData)
    ELSE IF shape = "sketch" THEN SketchPath(feedRate)
    ELSE IF shape \in {"square", "rectangle"}
    THEN RectPath(shape, offset, feedRate, curZ, isTabPass(curZ, rampData))
    ELSE IF shape = "circle"
    THEN CirclePath(offset, feedRate, curZ, isTabPass(curZ, rampData))
    ELSE <<>>


----------------------------------------------------------------------------
(* Pass planner: generate() *)

\* signed finish offset of the operation (toolDiameter is an even number of
\* micrometres: the half is exact)
FinishOffset ==
    IF p.operation = "outside" THEN p.toolDiameter \div 2
    ELSE IF p.operation = "inside" THEN -(p.toolDiameter \div 2)
    ELSE 0

\* for (let i = n; i >= 1; i--) passOffsets.push(offset + i * stepover * dirMult)
RECURSIVE RoughingOffsets(_, _, _)
RoughingOffsets(offset, i, dirMult) ==
    IF i < 1 THEN <<>>
    ELSE <<offset + i * p.roughingStepover * dirMult>>
         \o RoughingOffsets(offset, i - 1, dirMult)

\* the offset list with the finish offset first (C2 fails of it)
PassOffsetsFinishFirst(offset) ==
    LET dirMult == IF p.operation = "outside" THEN 1
                   ELSE IF p.operation = "inside" THEN -1 ELSE 0
    IN  <<offset>> \o RoughingOffsets(offset, p.roughingPasses, dirMult)

\* the per-depth offset list (roughing, then finish)
PassOffsets(offset) ==
    LET dirMult == IF p.operation = "outside" THEN 1
                   ELSE IF p.operation = "inside" THEN -1 ELSE 0
        rough   == IF p.enableRoughing /\ p.roughingPasses > 0
                      /\ p.roughingStepover > 0 /\ dirMult # 0
                   THEN RoughingOffsets(offset, p.roughingPasses, dirMult)
                   ELSE <<>>
    IN  rough \o <<offset>>

\* currentZ -= passDepth without the clamp to -targetDepth (C1 fails of it)
NextZNoClamp(z) ==
    z - p.passDepth

\* currentZ -= passDepth; if (currentZ < -targetDepth) currentZ = -targetDepth
NextZ(z) ==
    IF z - p.passDepth < -p.targetDepth THEN -p.targetDepth ELSE z - p.passDepth

\* `p.rampClearance || 0.5`
RampClearance == IF p.rampClearance = 0 THEN 500 ELSE p.rampClearance

\* `p.rampAngle || 2`
RampAngle == IF p.rampAngle = 0 THEN 2 ELSE p.rampAngle

\* the lines of one (Z, offset) pass: the body of passOffsets.forEach
PassLines(z, currentOffset, k, n) ==
    LET isFinish == k = n
        startPos == getStartPosition(p.shape, currentOffset)
        leadIn   == getLeadIn(p.shape, startPos, currentOffset, p)
        leadOut  == getLeadOut(p.shape, startPos, currentOffset, p)
        moveStart == IF leadIn.null THEN startPos ELSE leadIn.start
        prevZ      == z + p.passDepth
        rampStartZ == prevZ + RampClearance
        rampData   == RampData(rampStartZ, z, RampAngle)
    IN  <<Comment(IF isFinish THEN "finishPass" ELSE "roughingPass",
                  IF isFinish THEN 0 ELSE p.roughingPasses - (k - 1)),
          At("rapidXY", getRapidXY(moveStart.x, moveStart.y))>>
        \o (IF p.enableRamp
            THEN <<At("rampStart", getRapidZ(rampStartZ)),
                   Comment("ramping", ToFixed3(z, 1))>>
                 \o getShapePath(p.shape, currentOffset, p.feedRate, z, rampData)
                 \o getShapePath(p.shape, currentOffset, p.feedRate, z, NoRamp)
            ELSE <<G1Z("plunge", ToFixed3(z, 1), p.feedRate \div 2)>>
                 \o (IF leadIn.null THEN <<>> ELSE leadIn.moves)
                 \o getShapePath(p.shape, currentOffset, p.feedRate, z, NoRamp))
        \o (IF leadOut.null THEN <<>> ELSE leadOut.moves)
        \o (IF ~isFinish \/ p.enableRamp
            THEN <<At("retract", getRapidZ(p.safeZ))>>
            ELSE <<>>)

HeaderLines ==
    <<Comment("shape", 0), Comment("tool", 0), Comment("origin", 0)>>
    \o (IF p.enableTabs THEN <<Comment("tabs", Len(p.tabs))>> ELSE <<>>)
    \o <<Word("G21", "units"), Word("G90", "absolute"),
         Line("M3", "spindle", {"S"}, 0, 0, 0, 0, 0, p.spindleSpeed),
         At("safeZ", getRapidZ(p.safeZ))>>

\* the spindle stopped before the final retract (C18 fails of it)
FooterLinesSpindleFirst ==
    <<Word("M5", "footer"), At("footer", getRapidZ(p.safeZ)), Word("M30", "footer")>>

FooterLines ==
    <<At("footer", getRapidZ(p.safeZ)), Word("M5", "footer"), Word("M30", "footer")>>

\* lines of one call that are recorded; every call that returns stays below
MaxLines == 400

\* lines.push(...): the array after the push, of which the first MaxLines
\* lines are recorded
Recorded(pushed) ==
    IF Len(pushed) > MaxLines THEN SubSeq(pushed, 1, MaxLines) ELSE pushed

\* lines 347-367: the header, then the branch on opType
Header ==
    /\ pc = "start"
    /\ lines' = Recorded(lines \o HeaderLines)
    /\ pc' = IF p.opType = "facing" THEN "facing"
             ELSE IF p.opType = "text" THEN "text" ELSE "depth"
    /\ UNCHANGED <<p, currentZ, passOffsets, idx, y, cutDir>>
    /\ UNCHANGED <<given, returned>>
    /\ UNCHANGED sketcherVars

\* lines 378-400: one iteration of the depth loop up to the offset list
DepthPass ==
    /\ pc = "depth"
    /\ currentZ > -p.targetDepth
    /\ currentZ' = NextZ(currentZ)
    /\ lines' = Recorded(Append(lines, Comment("pass", NextZ(currentZ))))
    /\ passOffsets' = PassOffsets(FinishOffset)
    /\ idx' = 1
    /\ pc' = "pass"
    /\ UNCHANGED <<p, y, cutDir>>
    /\ UNCHANGED <<given, returned>>
    /\ UNCHANGED sketcherVars

\* the tab list sorted in place by the circle branch (C20 fails of it)
TabsSortedInPlace(shape, tabPass) ==
    IF tabPass /\ shape = "circle" THEN Sort(p.tabs, "angle") ELSE p.tabs

\* p.tabs after getShapePath: the rectangle branch sorts the array that
\* p.tabs.filter() returned (lines 1130-1137), the circle branch sorts the
\* copy [...p.tabs] (line 1199); neither writes the list of the record
TabsAfterPath(shape, tabPass) ==
    p.tabs

\* lines 403-458: one call of the passOffsets.forEach callback
ExecutePass ==
    /\ pc = "pass"
    /\ lines' = Recorded(lines \o PassLines(currentZ, passOffsets[idx], idx, Len(passOffsets)))
    /\ idx' = idx + 1
    /\ pc' = IF idx = Len(passOffsets) THEN "depth" ELSE "pass"
    /\ p' = [p EXCEPT !.tabs = TabsAfterPath(p.shape, isTabPass(currentZ, NoRamp))]
    /\ UNCHANGED <<currentZ, passOffsets, y, cutDir, given, returned>>
    /\ UNCHANGED sketcherVars

\* line 378: the depth loop ends
DepthDone ==
    /\ pc = "depth"
    /\ ~(currentZ > -p.targetDepth)
    /\ pc' = "footer"
    /\ UNCHANGED <<p, lines, currentZ, passOffsets, idx, y, cutDir>>
    /\ UNCHANGED <<given, returned>>
    /\ UNCHANGED sketcherVars

\* lines 462-467: the footer and the return of generate(); `returned` keeps,
\* for each finished call, the record it was given, the record as the call
\* left it, and the output
Footer ==
    /\ pc = "footer"
    /\ lines' = Recorded(lines \o FooterLines)
    /\ returned' = Append(returned, [given |-> given, params |-> p,
                                     out |-> lines \o FooterLines])
    /\ pc' = "done"
    /\ UNCHANGED <<p, currentZ, passOffsets, idx, y, cutDir, given>>
    /\ UNCHANGED sketcherVars

----------------------------------------------------------------------------
(* Facing planner: generateFacing() *)

FacingW ==
    IF p.shape \in {"square", "rectangle"} THEN p.width
    ELSE IF p.shape = "circle" THEN p.diameter
    ELSE IF p.shape = "sketch" THEN p.shapeWidth ELSE 0

FacingH ==
    IF p.shape = "square" THEN p.width
    ELSE IF p.shape = "rectangle" THEN p.height
    ELSE IF p.shape = "circle" THEN p.diameter
    ELSE IF p.shape = "sketch" THEN p.shapeHeight ELSE 0

StartX == -(FacingW \div 2) - p.toolDiameter \div 2 - p.passExtX

EndX == FacingW \div 2 + p.toolDiameter \div 2 + p.passExtX

StartY == -(FacingH \div 2) - p.toolDiameter \div 2 - p.passExtY

\* the top of the box without the tool radius (C15 fails of it)
EndYNoOverhang ==
    FacingH \div 2 + p.passExtY

EndY == FacingH \div 2 + p.toolDiameter \div 2 + p.passExtY

\* p.stepover > 0 ? p.stepover : (p.toolDiameter * 0.4)
Step == IF p.stepover > 0 THEN p.stepover ELSE (p.toolDiameter * 4) \div 10

\* the 0.001 tolerance of the row loop, in micrometres
RowEps == 1

\* lines 608-609: the direction of the first row of a depth
FirstCutDir == IF p.facingDirection = "conventional" THEN -1 ELSE 1

\* lines 586-614 (and 661 when the row loop does not run): one iteration of
\* the facing depth loop up to the first row
FacingDepth ==
    /\ pc = "facing"
    /\ currentZ > -p.targetDepth
    /\ LET t   == getTranslation
           z   == NextZ(currentZ)
           dir == FirstCutDir
           startXRun == IF dir = 1 THEN StartX ELSE EndX
           rows == StartY <= EndY + RowEps
       IN  /\ currentZ' = z
           /\ y' = StartY
           /\ cutDir' = dir
           /\ lines' = Recorded(lines
                \o <<Comment("facingPass", z),
                     At("rapidXY", getRapidXY(startXRun + t.x, StartY + t.y)),
                     G1Z("plunge", ToFixed3(z, 1), p.feedRate \div 2)>>
                \o (IF rows THEN <<>> ELSE <<At("retract", getRapidZ(p.safeZ))>>))
           /\ pc' = IF rows THEN "row" ELSE "facing"
    /\ UNCHANGED <<p, passOffsets, idx>>
    /\ UNCHANGED <<given, returned>>
    /\ UNCHANGED sketcherVars

\* the direction never toggled (C16 fails of it)
NextCutDirSame ==
    cutDir

\* line 629: `cutDir *= -1` in the zig-zag branch, unchanged in the one-way branch
NextCutDir == IF p.facingDirection = "both" THEN -cutDir ELSE cutDir

\* lines 616-661: one iteration of the row loop; on `break` the retract for
\* the next Z pass follows
FacingRow ==
    /\ pc = "row"
    /\ LET t       == getTranslation
           targetX == IF cutDir = 1 THEN EndX ELSE StartX
           nextY   == Min(y + Step, EndY)
           cut     == G1XY("cut", ToFixed3(targetX + t.x, 1),
                           ToFixed3(y + t.y, 1), p.feedRate)
           nextStartX == IF cutDir = 1 THEN StartX ELSE EndX
       IN  IF y < EndY
           THEN /\ lines' = Recorded(lines \o <<cut>>)
                     \o (IF p.facingDirection = "both"
                         THEN <<G1XY("stepover", ToFixed3(targetX + t.x, 1),
                                     ToFixed3(nextY + t.y, 1), p.feedRate)>>
                         ELSE <<(IF p.enableRapid
                                 THEN G1Z("lift", ToFixed3(p.safeZ, 1), p.rapidZ)
                                 ELSE G0Z("lift", ToFixed3(p.safeZ, 1))),
                                At("rapidXY", getRapidXY(nextStartX + t.x, nextY + t.y)),
                                G1Z("plunge", ToFixed3(currentZ, 1), p.feedRate \div 2)>>)
                /\ cutDir' = NextCutDir
                /\ y' = nextY
                /\ pc' = "row"
           ELSE /\ lines' = Recorded(lines \o <<cut, At("retract", getRapidZ(p.safeZ))>>)
                /\ UNCHANGED <<y, cutDir>>
                /\ pc' = "facing"
    /\ UNCHANGED <<p, currentZ, passOffsets, idx>>
    /\ UNCHANGED <<given, returned>>
    /\ UNCHANGED sketcherVars

\* line 586: the facing depth loop ends
FacingDone ==
    /\ pc = "facing"
    /\ ~(currentZ > -p.targetDepth)
    /\ pc' = "footer"
    /\ UNCHANGED <<p, lines, currentZ, passOffsets, idx, y, cutDir>>
    /\ UNCHANGED <<given, returned>>
    /\ UNCHANGED sketcherVars


----------------------------------------------------------------------------
(* Text engraving: generateText() and getCharacterPath() *)

\* the upper case of one character, on the characters the inputs use; it can
\* be longer than the character: the sharp s becomes SS
UpperOf(char) ==
    CASE char = "a" -> <<"A">>
      [] char = "i" -> <<"I">>
      [] char = "l" -> <<"L">>
      [] char = "ß" -> <<"S", "S">>
      [] OTHER -> <<char>>

\* String.prototype.toUpperCase: the upper cases of the characters in a row
RECURSIVE ToUpperCase(_)
ToUpperCase(text) ==
    IF text = <<>> THEN <<>>
    ELSE UpperOf(Head(text)) \o ToUpperCase(Tail(text))

\* the stick font, coordinates in tenths of a font unit (the "." glyph has
\* halves); the glyphs the inputs use, any character outside the table of the
\* source has no path
getCharacterPath(char) ==
    CASE char = "A" -> <<<<Pt(0, 0), Pt(30, 100), Pt(60, 0)>>,
                         <<Pt(10, 40), Pt(50, 40)>>>>
      [] char = "I" -> <<<<Pt(30, 0), Pt(30, 100)>>,
                         <<Pt(10, 0), Pt(50, 0)>>,
                         <<Pt(10, 100), Pt(50, 100)>>>>
      [] char = "L" -> <<<<Pt(0, 100), Pt(0, 0), Pt(60, 0)>>>>
      [] char = "S" -> <<<<Pt(0, 20), Pt(20, 0), Pt(40, 0), Pt(60, 20), Pt(60, 40),
                           Pt(0, 60), Pt(0, 80), Pt(20, 100), Pt(40, 100),
                           Pt(60, 80)>>>>
      [] char = "-" -> <<<<Pt(10, 50), Pt(50, 50)>>>>
      [] char = "." -> <<<<Pt(25, 0), Pt(35, 0), Pt(35, 10), Pt(25, 10), Pt(25, 0)>>>>
      [] OTHER -> <<>>

\* cursorX + path[i].x * scale with scale = size / 10, printed; cursor100 is
\* the cursor in hundredths of a micrometre
GlyphCoord(cursor100, c, size) == ToFixed3(cursor100 + c * size, 100)

\* lines 493-506: one stroke: rapid to its start, plunge, trace, retract
StrokeLines(path, cx100, cy100, size) ==
    <<At("rapidXY", getRapidXY(GlyphCoord(cx100, path[1].x, size),
                               GlyphCoord(cy100, path[1].y, size))),
      G1Z("plunge", ToFixed3(-p.targetDepth, 1), p.feedRate \div 2)>>
    \o [i \in 1..(Len(path) - 1) |->
            G1XY("cut", GlyphCoord(cx100, path[i + 1].x, size),
                        GlyphCoord(cy100, path[i + 1].y, size), p.feedRate)]
    \o <<At("retract", getRapidZ(p.safeZ))>>

\* paths.forEach of one character, strokes k.. of it
RECURSIVE GlyphLines(_, _, _, _, _)
GlyphLines(paths, k, cx100, cy100, size) ==
    IF k > Len(paths) THEN <<>>
    ELSE (IF Len(paths[k]) < 1 THEN <<>>
          ELSE StrokeLines(paths[k], cx100, cy100, size))
         \o GlyphLines(paths, k + 1, cx100, cy100, size)

\* the cursor advancing by the 6 units of a glyph, without the spacing (C25
\* fails of it)
RECURSIVE CharLinesNoSpacing(_, _, _, _)
CharLinesNoSpacing(obj, k, cx100, cy100) ==
    LET chars == ToUpperCase(obj.text)
    IN  IF k > Len(chars) THEN <<>>
        ELSE GlyphLines(getCharacterPath(chars[k]), 1, cx100, cy100, obj.size)
             \o CharLinesNoSpacing(obj, k + 1, cx100 + 60 * obj.size, cy100)

\* the loop over the characters of the upper-cased text of one text object
\* from character k on; the cursor advances by 8 * scale per character
RECURSIVE CharLines(_, _, _, _)
CharLines(obj, k, cx100, cy100) ==
    LET chars == ToUpperCase(obj.text)
    IN  IF k > Len(chars) THEN <<>>
        ELSE GlyphLines(getCharacterPath(chars[k]), 1, cx100, cy100, obj.size)
             \o CharLines(obj, k + 1, cx100 + 80 * obj.size, cy100)

\* textObjects.forEach from object k on
RECURSIVE TextLines(_)
TextLines(k) ==
    IF k > Len(p.textObjects) THEN <<>>
    ELSE LET obj == p.textObjects[k]
             t   == getTranslation
         IN  <<Comment("text", 0)>>
             \o CharLines(obj, 1, (obj.x + t.x) * 100, (obj.y + t.y) * 100)
             \o TextLines(k + 1)

\* lines 364-365: generateText(lines, p)
GenerateText ==
    /\ pc = "text"
    /\ lines' = Recorded(lines \o TextLines(1))
    /\ pc' = "footer"
    /\ UNCHANGED <<p, currentZ, passOffsets, idx, y, cutDir>>
    /\ UNCHANGED <<given, returned>>
    /\ UNCHANGED sketcherVars

----------------------------------------------------------------------------
(* Sketcher: the state of the sketch canvas.  Positions are in millimetres *)
(* relative to the canvas centre.                                          *)

\* the fields the constructor sets (sketcher.js:5-9)
NewSketcher ==
    [points |-> <<>>, textObjects |-> <<>>, mode |-> "vertex",
     isClosed |-> FALSE, gridSize |-> 10]

\* no event handled yet; n counts the events handled, at is the snapped
\* position of a click
NoEvent == [n |-> 0, op |-> "new", at |-> Pt(0, 0)]

----------------------------------------------------------------------------
(* Parameter Records the generator is run on *)

MaxDepth == 10

MaxPassDepth == 4

MaxRoughingPasses == 2

MaxTabs == 2

mm(k) == k * 1000

SeqsUpTo(S, n) == UNION {[1..k -> S] : k \in 0..n}

Origins == {"stock-center", "stock-bottom-left", "shape-top-right"}

\* depth stepping, contour and facing
DepthInputs ==
    {[Default EXCEPT !.targetDepth = mm(td), !.passDepth = mm(pd),
                     !.opType = o[1], !.facingDirection = o[2]] :
        td \in 1..MaxDepth, pd \in 1..MaxPassDepth,
        o \in {<<"contour", "both">>, <<"facing", "both">>,
               <<"facing", "climb">>, <<"facing", "conventional">>}}

\* roughing offsets
RoughingInputs ==
    {[Default EXCEPT !.shape = sh, !.operation = op, !.enableRoughing = er,
                     !.roughingPasses = n, !.roughingStepover = so,
                     !.toolDiameter = td] :
        sh \in {"rectangle", "circle"}, op \in {"outside", "inside", "center"},
        er \in BOOLEAN, n \in 0..MaxRoughingPasses, so \in {0, mm(1)},
        td \in {mm(2), mm(6)}}

RectTabChoices ==
    {RectTab("bottom", 50), RectTab("bottom", 60), RectTab("bottom", 0),
     RectTab("right", 100), RectTab("top", 50), RectTab("left", 25)}

\* tabs on rectangles and squares; passDepth 8.001 puts a pass exactly at
\* tabTopZ - 0.001; inside with a 12 mm tool the offset rectangle is 8 x -2
RectTabInputs ==
    {[Default EXCEPT !.shape = v[1], !.operation = v[2],
                     !.toolDiameter = v[3], !.enableTabs = TRUE, !.tabs = tabs,
                     !.tabWidth = tw, !.tabThickness = mm(2),
                     !.targetDepth = mm(10), !.passDepth = pd,
                     !.origin = og, !.enableRapid = (og # "stock-center")] :
        v \in {<<"rectangle", "outside", mm(2)>>, <<"square", "outside", mm(2)>>,
               <<"rectangle", "inside", mm(12)>>},
        tabs \in SeqsUpTo(RectTabChoices, MaxTabs),
        tw \in {0, mm(4)}, pd \in {mm(3), 8001, mm(5)},
        og \in {"stock-center", "stock-bottom-left"}}

CircleTabChoices ==
    {CircleTab(0), CircleTab(90), CircleTab(100), CircleTab(180), CircleTab(355)}

\* tabs on circles; inside with a 28 mm tool the radius is -4
CircleTabInputs ==
    {[Default EXCEPT !.shape = "circle", !.operation = v[1],
                     !.toolDiameter = v[2], !.enableTabs = en, !.tabs = tabs,
                     !.tabWidth = mm(4), !.tabThickness = mm(2),
                     !.targetDepth = mm(10), !.passDepth = pd,
                     !.origin = og] :
        v \in {<<"outside", mm(2)>>, <<"inside", mm(28)>>},
        en \in BOOLEAN, tabs \in SeqsUpTo(CircleTabChoices, MaxTabs),
        pd \in {mm(3), 8001}, og \in {"stock-center", "stock-bottom-left"}}

Triangle == <<Pt(0, 0), Pt(4000, 0), Pt(4000, 3000)>>

\* lead-in / lead-out, with and without ramping
LeadInputs ==
    {[Default EXCEPT !.shape = sh, !.sketchPoints = Triangle,
                     !.operation = op, !.leadType = lt,
                     !.leadInLen = li, !.leadOutLen = lo,
                     !.enableRamp = rp, !.rampAngle = ra, !.origin = og] :
        sh \in {"rectangle", "square", "circle", "sketch"},
        op \in {"outside", "inside"}, lt \in {"none", "linear", "radius"},
        li \in {0, mm(3)}, lo \in {0, mm(3)}, rp \in BOOLEAN, ra \in {0, 1},
        og \in Origins}

\* ramping over several depths, the last one clamped (10 / 3, 4 / 3) or the
\* only one (2 / 3)
RampDepthInputs ==
    {[Default EXCEPT !.shape = v[1], !.rampAngle = v[2], !.enableRamp = TRUE,
                     !.targetDepth = mm(td), !.passDepth = mm(3),
                     !.rampClearance = rc] :
        v \in {<<"rectangle", 0>>, <<"circle", 0>>, <<"circle", 1>>},
        td \in {2, 4, 10}, rc \in {0, mm(1)}}

\* facing: bounding box of every shape, pass extensions, stepover fallback,
\* a stepover that does not divide the height, two tool diameters
FacingInputs ==
    {[Default EXCEPT !.opType = "facing", !.shape = sh, !.facingDirection = fd,
                     !.stepover = so, !.passExtX = e[1], !.passExtY = e[2],
                     !.toolDiameter = td, !.enableRapid = er, !.origin = o] :
        sh \in {"rectangle", "square", "circle", "sketch"},
        fd \in {"both", "climb", "conventional"},
        so \in {0, mm(5)}, e \in {<<0, 0>>, <<mm(1), mm(2)>>},
        td \in {mm(2), mm(6)}, er \in BOOLEAN,
        o \in {"stock-center", "stock-bottom-left"}}

\* engraved texts: no object, one glyph, several strokes, lower case, a blank,
\* a character outside the font, two objects, a character whose upper case
\* is two characters
Texts ==
    {<<>>,
     <<[text |-> <<"A">>, x |-> 0, y |-> 0, size |-> mm(10)]>>,
     <<[text |-> <<"a", "i", " ", "-">>, x |-> mm(-4), y |-> mm(2), size |-> mm(5)]>>,
     <<[text |-> <<"L", "#", ".">>, x |-> mm(3), y |-> mm(-3), size |-> mm(20)],
       [text |-> <<"I">>, x |-> 0, y |-> mm(8), size |-> mm(10)]>>,
     <<[text |-> <<"ß", "A">>, x |-> mm(1), y |-> 0, size |-> mm(10)]>>}

TextInputs ==
    {[Default EXCEPT !.opType = "text", !.textObjects = tx, !.enableRapid = er,
                     !.targetDepth = mm(td), !.origin = o] :
        tx \in Texts, er \in BOOLEAN, td \in 1..2, o \in Origins}

\* every kind of positioning move in one contour run, with and without rapid
\* emulation: leads, ramp start, tab lifts, retracts between roughing passes
RapidInputs ==
    {[Default EXCEPT !.enableRapid = er, !.shape = sh, !.sketchPoints = Triangle,
                     !.enableRamp = rp, !.leadType = lt,
                     !.leadInLen = mm(3), !.leadOutLen = mm(3),
                     !.enableTabs = tb, !.tabWidth = mm(4), !.tabThickness = mm(1),
                     !.tabs = IF sh = "circle" THEN <<CircleTab(90)>>
                              ELSE <<RectTab("bottom", 50)>>,
                     !.enableRoughing = ro, !.roughingPasses = 1,
                     !.roughingStepover = mm(1)] :
        er \in BOOLEAN, sh \in {"rectangle", "square", "circle", "sketch"},
        rp \in BOOLEAN, lt \in {"none", "linear", "radius"}, tb \in BOOLEAN,
        ro \in BOOLEAN}

\* ramping over tabs: passes at -1, -2, -3 with the tab top at -2; at 2
\* degrees the ramp is one loop, at 1 degree two
RampTabInputs ==
    {[Default EXCEPT !.shape = v[1], !.tabs = v[2], !.enableRamp = TRUE,
                     !.rampAngle = ra, !.enableTabs = TRUE,
                     !.tabWidth = mm(4), !.tabThickness = mm(1),
                     !.targetDepth = mm(3), !.passDepth = mm(1),
                     !.origin = og] :
        v \in {<<"rectangle", <<RectTab("bottom", 50)>>>>,
               <<"rectangle", <<RectTab("top", 50)>>>>,
               <<"square", <<RectTab("left", 25), RectTab("right", 100)>>>>,
               <<"circle", <<CircleTab(90)>>>>,
               <<"circle", <<CircleTab(180), CircleTab(270)>>>>},
        ra \in {1, 2}, og \in {"stock-center", "stock-bottom-left"}}

\* polygons of 0, 1, 2, 3 and 4 points
Polygons ==
    {<<>>, <<Pt(1000, 2000)>>, <<Pt(0, 0), Pt(4000, 0)>>, Triangle,
     <<Pt(-2000, -1500), Pt(2000, -1500), Pt(2000, 1500), Pt(-2000, 1500)>>}

\* sketches: with and without leads, ramping, a roughing pass and tabs
SketchInputs ==
    {[Default EXCEPT !.shape = "sketch", !.sketchPoints = pts,
                     !.leadType = lt, !.leadInLen = mm(3), !.leadOutLen = mm(3),
                     !.enableRamp = rp, !.origin = og,
                     !.enableRoughing = (rg = 1), !.roughingPasses = rg,
                     !.roughingStepover = mm(1),
                     !.enableTabs = tb, !.tabWidth = mm(4), !.tabThickness = mm(1),
                     !.tabs = <<RectTab("bottom", 50)>>] :
        pts \in Polygons, lt \in {"none", "linear"}, rp \in BOOLEAN,
        og \in Origins, rg \in {0, 1}, tb \in BOOLEAN}

Inputs ==
    DepthInputs \cup RoughingInputs \cup RectTabInputs \cup CircleTabInputs
    \cup LeadInputs \cup RampDepthInputs \cup FacingInputs \cup TextInputs
    \cup RapidInputs \cup SketchInputs \cup RampTabInputs

Init ==
    /\ p \in Inputs
    /\ pc = "start"
    /\ lines = <<>>
    /\ currentZ = 0
    /\ passOffsets = <<>>
    /\ idx = 0
    /\ y = 0
    /\ cutDir = 1
    /\ given = p
    /\ returned = <<>>
    /\ sketcher = NewSketcher
    /\ event = NoEvent

Next ==
    \/ Header
    \/ DepthPass
    \/ ExecutePass
    \/ DepthDone
    \/ FacingDepth
    \/ FacingRow
    \/ FacingDone
    \/ GenerateText
    \/ Footer

Spec == Init /\ [][Next]_vars

----------------------------------------------------------------------------
(* Several calls on one generator.  src/ui.js update() (lines 266-271)     *)
(* builds a Parameter Record with getParams(), hands it to setParams() and *)
(* calls generate(); it runs again on every change of an input.            *)

MaxCalls == 2

AllOrigins ==
    {"stock-center", "stock-bottom-left", "stock-bottom-right",
     "stock-top-left", "stock-top-right",
     "shape-center", "shape-bottom-left", "shape-bottom-right",
     "shape-top-left", "shape-top-right"}

LeadTypes == {"none", "linear", "radius"}

\* setParams(q) followed by the entry of generate(): `lines` and the loop
\* variables are locals of the call
Call(q) ==
    /\ pc = "done"
    /\ Len(returned) < MaxCalls
    /\ p' = q
    /\ given' = q
    /\ pc' = "start"
    /\ lines' = <<>>
    /\ currentZ' = 0
    /\ passOffsets' = <<>>
    /\ idx' = 0
    /\ y' = 0
    /\ cutDir' = 1
    /\ UNCHANGED returned
    /\ UNCHANGED sketcherVars

\* generate() called again with the record the generator holds
GenerateAgain == \E q \in {p} : Call(q)

\* update() after the lead type select changed
ChangeLeadType == \E lt \in LeadTypes \ {p.leadType} : Call([p EXCEPT !.leadType = lt])

\* update() after the origin select changed
ChangeOrigin == \E o \in AllOrigins \ {p.origin} : Call([p EXCEPT !.origin = o])

\* unsorted tab lists, leads on every shape, ramping, facing, text
CallInputs ==
    {[Default EXCEPT !.shape = sh, !.sketchPoints = Triangle, !.operation = op,
                     !.leadType = lt, !.leadInLen = l[1], !.leadOutLen = l[2],
                     !.enableRamp = rp] :
        sh \in {"rectangle", "square", "circle", "sketch"},
        op \in {"outside", "inside"}, lt \in {"linear", "radius"},
        l \in {<<mm(3), mm(3)>>, <<mm(3), 0>>}, rp \in BOOLEAN}
    \cup
    {[Default EXCEPT !.shape = v[1], !.tabs = v[2], !.enableTabs = TRUE,
                     !.tabWidth = mm(4), !.tabThickness = mm(1),
                     !.enableRapid = er] :
        v \in {<<"circle", <<CircleTab(180), CircleTab(90)>>>>,
               <<"rectangle", <<RectTab("bottom", 60), RectTab("bottom", 20)>>>>},
        er \in BOOLEAN}
    \cup
    {[Default EXCEPT !.opType = "facing", !.facingDirection = fd, !.stepover = mm(5)] :
        fd \in {"both", "climb"}}
    \cup
    {[Default EXCEPT !.opType = "text", !.textObjects = tx] : tx \in Texts \ {<<>>}}

InitCalls ==
    /\ p \in CallInputs
    /\ pc = "start"
    /\ lines = <<>>
    /\ currentZ = 0
    /\ passOffsets = <<>>
    /\ idx = 0
    /\ y = 0
    /\ cutDir = 1
    /\ given = p
    /\ returned = <<>>
    /\ sketcher = NewSketcher
    /\ event = NoEvent

NextCalls ==
    \/ Next
    \/ GenerateAgain
    \/ ChangeLeadType
    \/ ChangeOrigin

SpecCalls == InitCalls /\ [][NextCalls]_vars


----------------------------------------------------------------------------
(* Reading the output.  The properties below are stated on `lines`, the    *)
(* command sequence generate() has produced so far.                        *)

\* index of the first line at or after k whose site is in S, 0 when none
RECURSIVE FirstAt(_, _)
FirstAt(k, S) ==
    IF k > Len(lines) THEN 0
    ELSE IF lines[k].site \in S THEN k
    ELSE FirstAt(k + 1, S)

\* the Z of each depth pass begun so far, in order: the Z of the first plunge
\* (or ramp) after each `; Pass at Z=` / `; Facing Pass at Z=` comment
RECURSIVE ZSeqFrom(_)
ZSeqFrom(k) ==
    IF k > Len(lines) THEN <<>>
    ELSE IF lines[k].site \in {"pass", "facingPass"}
    THEN LET j == FirstAt(k + 1, {"plunge", "ramping"})
         IN  (IF j = 0 THEN <<>> ELSE <<lines[j].z>>) \o ZSeqFrom(k + 1)
    ELSE ZSeqFrom(k + 1)

ZSeq == ZSeqFrom(1)

\* the depth loop (contour or facing; a text run has none) has ended
DepthLoopOver == p.opType # "text" /\ pc \in {"footer", "done"}

\* C1: for targetDepth > 0 and passDepth > 0 the k-th depth pass, contour or
\* facing, is at Z = -min(k * passDepth, targetDepth): the sequence starts at
\* -passDepth (or -targetDepth when passDepth >= targetDepth), strictly
\* decreases by passDepth, never goes below -targetDepth, and once the loop is
\* over its last element is exactly -targetDepth (a single pass at
\* -targetDepth when passDepth >= targetDepth).
C1_DepthSequence ==
    LET zs == ZSeq
        td == p.targetDepth
        pd == p.passDepth
    IN  /\ \A k \in 1..Len(zs) : zs[k] = -Min(k * pd, td)
        /\ \A k \in 1..(Len(zs) - 1) :
              /\ zs[k + 1] < zs[k]
              /\ zs[k + 1] = zs[k] - pd \/ zs[k + 1] = -td
        /\ DepthLoopOver =>
              /\ Len(zs) >= 1
              /\ zs[Len(zs)] = -td
              /\ (pd >= td => zs = <<-td>>)

\* targetDepth = 10, passDepth = 3 gives exactly [-3, -6, -9, -10], in a
\* facing run
C1_Witness ==
    /\ pc = "done"
    /\ p.opType = "facing"
    /\ p.targetDepth = mm(10)
    /\ p.passDepth = mm(3)
    /\ ZSeq = <<-3000, -6000, -9000, -10000>>

\* the same sequence in a contour run
C1_WitnessContour ==
    /\ pc = "done"
    /\ p.opType = "contour"
    /\ p.targetDepth = mm(10)
    /\ p.passDepth = mm(3)
    /\ ZSeq = <<-3000, -6000, -9000, -10000>>

\* C2: at every depth pass the offset list is the roughing offsets
\* F + i * roughingStepover * dir for i = roughingPasses down to 1 (only with
\* roughing enabled, roughingPasses > 0, roughingStepover > 0, operation
\* outside or inside) followed by the finish offset F = +tool/2 (outside),
\* -tool/2 (inside), 0 (center); magnitudes strictly decrease to the finish
\* offset, which is last; otherwise the list is exactly [F].
C2_OffsetList ==
    pc = "pass" =>
        LET F   == CASE p.operation = "outside" -> p.toolDiameter \div 2
                     [] p.operation = "inside"  -> -(p.toolDiameter \div 2)
                     [] OTHER -> 0
            dir == CASE p.operation = "outside" -> 1
                     [] p.operation = "inside"  -> -1
                     [] OTHER -> 0
            rough == /\ p.enableRoughing
                     /\ p.roughingPasses > 0
                     /\ p.roughingStepover > 0
                     /\ p.operation \in {"outside", "inside"}
            n   == IF rough THEN p.roughingPasses ELSE 0
        IN  /\ Len(passOffsets) = n + 1
            /\ passOffsets[n + 1] = F
            /\ \A k \in 1..n :
                  /\ passOffsets[k] = F + (n + 1 - k) * p.roughingStepover * dir
                  /\ Abs(passOffsets[k]) > Abs(passOffsets[k + 1])
            /\ (~rough => passOffsets = <<F>>)

\* outside, toolDiameter = 6, roughingPasses = 2, roughingStepover = 1 gives
\* [5, 4, 3], and the second roughing pass is about to run
C2_Witness ==
    /\ pc = "pass"
    /\ idx = 2
    /\ p.operation = "outside"
    /\ p.toolDiameter = mm(6)
    /\ p.enableRoughing
    /\ p.roughingPasses = 2
    /\ p.roughingStepover = mm(1)
    /\ passOffsets = <<5000, 4000, 3000>>


----------------------------------------------------------------------------
(* The (Z, offset) pass that has just been executed.  ExecutePass appends  *)
(* one whole pass, so in the state after it the pass is the tail of        *)
(* `lines` from its `; Finish Pass` / `; Roughing n Pass` comment on.      *)

PassMarks == {"finishPass", "roughingPass"}

JustExecuted == pc \in {"pass", "depth"} /\ idx >= 2

LastPassStart ==
    CHOOSE k \in 1..Len(lines) :
        /\ lines[k].site \in PassMarks
        /\ \A j \in (k + 1)..Len(lines) : lines[j].site \notin PassMarks

LastOffset == passOffsets[idx - 1]

LastIsFinish == idx - 1 = Len(passOffsets)

IsRetract(line) == line.ax = {"Z"} /\ line.z = p.safeZ /\ line.site = "retract"

\* C3 (as claimed): a retract to safeZ follows every (Z, offset) pass except
\* the finish pass of the deepest depth, so the finish pass of a non-final
\* depth ends with a retract; with enableRamp every pass ends with a retract.
C3_RetractAfterEveryPass ==
    JustExecuted =>
        LET deepestFinish == LastIsFinish /\ currentZ = -p.targetDepth
            last == lines[Len(lines)]
        IN  IF p.enableRamp \/ ~deepestFinish
            THEN IsRetract(last)
            ELSE ~IsRetract(last)

\* what the code does: the retract is left out after the finish pass of every
\* depth, not only the deepest
C3_RetractUnlessFinish ==
    JustExecuted =>
        (IsRetract(lines[Len(lines)]) <=> (p.enableRamp \/ ~LastIsFinish))

\* a finish pass above the target depth has ended without a retract
C3_FinishPassNoRetract ==
    /\ JustExecuted
    /\ LastIsFinish
    /\ ~p.enableRamp
    /\ currentZ > -p.targetDepth
    /\ ~IsRetract(lines[Len(lines)])


----------------------------------------------------------------------------
(* Geometry of the pass just executed, computed directly from the          *)
(* parameters: what the output is compared with.                           *)

LastPassIdx == LastPassStart..Len(lines)

Axes(line) == line.ax \cap {"X", "Y", "Z", "I", "J"}

\* an X/Y move (linear or arc) that ends at pt and has no Z word
XYMove(line, pt) ==
    /\ {"X", "Y"} \subseteq line.ax
    /\ "Z" \notin line.ax
    /\ line.x = pt.x
    /\ line.y = pt.y

ZMove(line, z) == Axes(line) = {"Z"} /\ line.z = z

Lifts == {k \in LastPassIdx : lines[k].site = "lift"}

\* lines k-1 .. k+2 are: move to a, lift to the tab top, move to b, plunge
\* back to the pass depth
HopAt(k, a, b) ==
    /\ k - 1 > LastPassStart
    /\ k + 2 <= Len(lines)
    /\ XYMove(lines[k - 1], a)
    /\ ZMove(lines[k], -p.targetDepth + p.tabThickness)
    /\ XYMove(lines[k + 1], b)
    /\ ZMove(lines[k + 2], currentZ)

IsRect == p.shape \in {"rectangle", "square"}

OffW == p.width \div 2 + LastOffset

OffH == (IF p.shape = "square" THEN p.width ELSE p.height) \div 2 + LastOffset

SideNames == <<"bottom", "right", "top", "left">>

SideLength(name) == IF name \in {"bottom", "top"} THEN 2 * OffW ELSE 2 * OffH

\* the point at distance d along a side, counter-clockwise from bottom-left
SidePoint(name, d) ==
    LET t == getTranslation
    IN  CASE name = "bottom" -> Pt(-OffW + d + t.x, -OffH + t.y)
          [] name = "right"  -> Pt(OffW + t.x, -OffH + d + t.y)
          [] name = "top"    -> Pt(OffW - d + t.x, OffH + t.y)
          [] name = "left"   -> Pt(-OffW + t.x, OffH - d + t.y)

SideEnd(name) == SidePoint(name, SideLength(name))

SpanStart(tab) ==
    Max(0, (SideLength(tab.side) * tab.offset) \div 100 - p.tabWidth \div 2)

SpanEnd(tab) ==
    Min(SideLength(tab.side),
        (SideLength(tab.side) * tab.offset) \div 100 + p.tabWidth \div 2)

HasSpan(tab) == tab.side \in {"bottom", "right", "top", "left"}
                /\ SpanStart(tab) < SpanEnd(tab)

LastRadius == p.diameter \div 2 + LastOffset

ArcStart(tab) == tab.angle * 1000 - HalfAngleW(LastRadius)

ArcEnd(tab) == tab.angle * 1000 + HalfAngleW(LastRadius)

\* tab i comes after tab j when the tabs are sorted by angle (ties in input
\* order)
SortedBefore(j, i) ==
    \/ p.tabs[j].angle < p.tabs[i].angle
    \/ p.tabs[j].angle = p.tabs[i].angle /\ j < i

\* the span of circle tab i starts after angle 0 and after the end of the
\* span of every tab sorted before it
StartsClear(i) ==
    /\ ArcStart(p.tabs[i]) > 0
    /\ \A j \in 1..Len(p.tabs) :
          SortedBefore(j, i) => ArcStart(p.tabs[i]) > ArcEnd(p.tabs[j])

\* every lift of the pass goes to tabTopZ, is followed by a traverse and a
\* plunge back to the pass depth, and the pass has such a hop across the span
\* of each rectangle tab with a non-empty span and of each circle tab whose
\* span starts clear of the earlier ones
LiftsAcrossSpans ==
    /\ \A k \in Lifts :
          /\ ZMove(lines[k], -p.targetDepth + p.tabThickness)
          /\ k + 2 <= Len(lines)
          /\ Axes(lines[k + 1]) \cap {"X", "Y", "Z"} = {"X", "Y"}
          /\ ZMove(lines[k + 2], currentZ)
    /\ IsRect =>
          \A i \in 1..Len(p.tabs) :
              HasSpan(p.tabs[i]) =>
                  \E k \in Lifts :
                      HopAt(k, SidePoint(p.tabs[i].side, SpanStart(p.tabs[i])),
                            SidePoint(p.tabs[i].side, SpanEnd(p.tabs[i])))
    /\ (p.shape = "circle" /\ LastRadius # 0) =>
          \A i \in 1..Len(p.tabs) :
              StartsClear(i) =>
                  \E k \in Lifts :
                      HopAt(k, getCoords(ArcStart(p.tabs[i]), LastRadius),
                            getCoords(ArcEnd(p.tabs[i]), LastRadius))

\* a rectangle, square or circle pass of a run with tabs enabled and present
TabRun ==
    /\ JustExecuted
    /\ p.enableTabs
    /\ Len(p.tabs) > 0
    /\ IsRect \/ p.shape = "circle"

C4_WitnessLift ==
    /\ TabRun
    /\ currentZ < -p.targetDepth + p.tabThickness - 1
    /\ Cardinality(Lifts) = 2
    /\ LiftsAcrossSpans


\* the sites of the moves of a flat (non-ramp) cut path
FlatSites == {"cut", "lift", "tab", "replunge"}

FlatIdx == {k \in LastPassIdx : lines[k].site \in FlatSites}

FlatFirst == CHOOSE k \in FlatIdx : \A j \in FlatIdx : k <= j

\* the last X/Y move of the flat path
FlatLastXY ==
    CHOOSE k \in FlatIdx :
        /\ {"X", "Y"} \subseteq lines[k].ax
        /\ \A j \in FlatIdx : {"X", "Y"} \subseteq lines[j].ax => j <= k

\* where the tool is, in X/Y, before line k: the end of the last X/Y move
ToolXYBefore(k) ==
    LET j == CHOOSE j \in 1..(k - 1) :
                 /\ {"X", "Y"} \subseteq lines[j].ax
                 /\ \A i \in (j + 1)..(k - 1) : ~({"X", "Y"} \subseteq lines[i].ax)
    IN  Pt(lines[j].x, lines[j].y)

\* index of the first cutting move to pt at or after line k, 0 when none
RECURSIVE NextCutTo(_, _)
NextCutTo(k, pt) ==
    IF k > Len(lines) THEN 0
    ELSE IF lines[k].site = "cut" /\ XYMove(lines[k], pt) THEN k
    ELSE NextCutTo(k + 1, pt)

\* C5: the flat cut path of a rectangle or square pass starts with the tool
\* at the bottom-left corner (-(width/2 + o), -(height/2 + o)) + translation,
\* its side-end moves go to bottom-right, top-right, top-left and bottom-left
\* in that order, and its last X/Y position is the bottom-left corner again,
\* the position it started from (for a square height is width).
C5_RectangleClosed ==
    (JustExecuted /\ IsRect) =>
        LET bl == SidePoint("bottom", 0)
            i1 == NextCutTo(FlatFirst, SideEnd("bottom"))
            i2 == NextCutTo(i1 + 1, SideEnd("right"))
            i3 == NextCutTo(i2 + 1, SideEnd("top"))
            i4 == NextCutTo(i3 + 1, SideEnd("left"))
        IN  /\ FlatIdx # {}
            /\ ToolXYBefore(FlatFirst) = bl
            /\ i1 > 0 /\ i2 > 0 /\ i3 > 0 /\ i4 > 0
            /\ i4 = FlatLastXY
            /\ i4 = Len(lines) \/ lines[i4 + 1].site \notin FlatSites
            /\ SideEnd("left") = bl
            /\ SideEnd("bottom") = Pt(bl.x + 2 * OffW, bl.y)
            /\ SideEnd("top") = Pt(bl.x, bl.y + 2 * OffH)
            /\ Pt(lines[FlatLastXY].x, lines[FlatLastXY].y)
                   = ToolXYBefore(FlatFirst)

\* a square tab pass away from the origin has gone round and closed
C5_Witness ==
    /\ JustExecuted
    /\ p.shape = "square"
    /\ p.origin = "stock-bottom-left"
    /\ Lifts # {}
    /\ XYMove(lines[FlatLastXY], Pt(-11000 + 20000, -11000 + 15000))
    /\ ToolXYBefore(FlatFirst) = Pt(9000, 4000)


\* pt is at distance d from centre c, to within 2 micrometres
AtDistance(pt, c, d) ==
    LET dx == pt.x - c.x
        dy == pt.y - c.y
        d2 == dx * dx + dy * dy
        lo == IF d >= 2 THEN (d - 2) * (d - 2) ELSE 0
    IN  lo <= d2 /\ d2 <= (d + 2) * (d + 2)

\* the arcs of the cut path of the last pass: flat path and helical ramp
CutArcs ==
    {k \in LastPassIdx : /\ lines[k].g \in {"G2", "G3"}
                         /\ lines[k].site \in {"cut", "tab", "ramp"}}

\* arc k, issued from where the tool is, starts and ends at distance |r| from
\* the translated centre and its I,J lead from the start to that centre
ArcOnCircle(k) ==
    LET c == getTranslation
        s == ToolXYBefore(k)
        e == Pt(lines[k].x, lines[k].y)
        r == Abs(LastRadius)
    IN  /\ {"I", "J"} \subseteq lines[k].ax
        /\ Abs(s.x + lines[k].i - c.x) <= 1
        /\ Abs(s.y + lines[k].j - c.y) <= 1
        /\ AtDistance(s, c, r)
        /\ AtDistance(e, c, r)

\* C6 (as claimed): every arc of a circle cut pass, plain or tabbed or a
\* helical ramp loop, has start and end at distance |r| from the translated
\* centre and I,J pointing from the tool's actual position to that centre.
C6_ArcsOnCircle ==
    (JustExecuted /\ p.shape = "circle") => \A k \in CutArcs : ArcOnCircle(k)

\* the same for the arcs of the flat cut path alone
C6_FlatArcsOnCircle ==
    (JustExecuted /\ p.shape = "circle") =>
        \A k \in CutArcs : lines[k].site # "ramp" => ArcOnCircle(k)

\* a run with ramping and a lead-in
RampWithLeadIn ==
    p.enableRamp /\ p.leadType \in {"linear", "radius"} /\ p.leadInLen > 0

\* without the combination of ramping and a lead-in the helical loops are on
\* the circle too
C6_ArcsOnCircleUnlessRampLead ==
    (JustExecuted /\ p.shape = "circle" /\ ~RampWithLeadIn) =>
        \A k \in CutArcs : ArcOnCircle(k)

\* a helical loop has been issued from the lead-in start point, off the circle
C6_RampArcOffCircle ==
    /\ JustExecuted
    /\ p.shape = "circle"
    /\ RampWithLeadIn
    /\ \E k \in CutArcs : lines[k].site = "ramp" /\ ~ArcOnCircle(k)


\* indices of the tabs on side `name` that have a non-empty span
SpanTabs(name) ==
    {i \in 1..Len(p.tabs) : p.tabs[i].side = name /\ HasSpan(p.tabs[i])}

\* those indices by ascending offset percentage (ties in input order)
TabOrder(name) ==
    LET I == SpanTabs(name)
        n == Cardinality(I)
    IN  CHOOSE q \in [1..n -> I] :
            \A a, b \in 1..n :
                a < b =>
                    \/ p.tabs[q[a]].offset < p.tabs[q[b]].offset
                    \/ /\ p.tabs[q[a]].offset = p.tabs[q[b]].offset
                       /\ q[a] < q[b]

\* number of lines of side k of a tab pass: four per tab and the side-end cut
SideLines(k) == 4 * Cardinality(SpanTabs(SideNames[k])) + 1

\* index in `lines` of the first line of side k of the flat path
RECURSIVE SideFirst(_)
SideFirst(k) ==
    IF k = 1 THEN FlatFirst ELSE SideFirst(k - 1) + SideLines(k - 1)

\* the pass just executed is below the tab threshold in a run with tabs
BelowTabTop ==
    /\ p.enableTabs
    /\ Len(p.tabs) > 0
    /\ currentZ < -p.targetDepth + p.tabThickness - 1

\* C7: on a rectangle or square tab pass each side, in the order bottom,
\* right, top, left, is: for each tab of that side whose span
\* [max(0, len*offset/100 - tabWidth/2), min(len, len*offset/100 + tabWidth/2)]
\* is non-empty, in ascending offset order, a cut to the span start, a lift to
\* tabTopZ, a traverse to the span end and a plunge back to the pass Z; then a
\* cut to the side's end corner.  A side without such tabs is the single cut
\* to its end corner, and so is every side of a pass that is not a tab pass.
C7_RectangleTabOrder ==
    (JustExecuted /\ IsRect) =>
        IF BelowTabTop
        THEN /\ \A k \in 1..4 :
                   LET name == SideNames[k]
                       q    == TabOrder(name)
                       lo   == SideFirst(k)
                       hi   == lo + SideLines(k) - 1
                   IN  /\ hi <= Len(lines)
                       /\ \A j \in 1..Cardinality(SpanTabs(name)) :
                             /\ HopAt(lo + 4 * (j - 1) + 1,
                                      SidePoint(name, SpanStart(p.tabs[q[j]])),
                                      SidePoint(name, SpanEnd(p.tabs[q[j]])))
                             /\ lines[lo + 4 * (j - 1)].site = "cut"
                       /\ lines[hi].site = "cut"
                       /\ XYMove(lines[hi], SideEnd(name))
             /\ FlatIdx = FlatFirst..(SideFirst(4) + SideLines(4) - 1)
        ELSE /\ Cardinality(FlatIdx) = 4
             /\ \A k \in 1..4 :
                   XYMove(lines[FlatFirst + k - 1], SideEnd(SideNames[k]))

\* a tab pass with two overlapping tabs on the bottom side, given in
\* descending offset order, has been cut
C7_Witness ==
    /\ JustExecuted
    /\ p.shape = "rectangle"
    /\ BelowTabTop
    /\ Len(p.tabs) = 2
    /\ p.tabs[1] = RectTab("bottom", 60)
    /\ p.tabs[2] = RectTab("bottom", 50)
    /\ SpanTabs("bottom") = {1, 2}
    /\ TabOrder("bottom") = <<2, 1>>
    /\ Cardinality(Lifts) = 2


\* circle tab i has a span that lies strictly inside (0, 360) degrees
SpanInside(i) ==
    /\ 0 < Min(ArcStart(p.tabs[i]), ArcEnd(p.tabs[i]))
    /\ Max(ArcStart(p.tabs[i]), ArcEnd(p.tabs[i])) < 360000

\* the lifts of the pass that hop across the span of circle tab i
HopsOf(i) ==
    {k \in Lifts : HopAt(k, getCoords(ArcStart(p.tabs[i]), LastRadius),
                         getCoords(ArcEnd(p.tabs[i]), LastRadius))}

CircleTabPass ==
    /\ JustExecuted
    /\ p.shape = "circle"
    /\ BelowTabTop
    /\ LastRadius # 0

\* C8 (as claimed): on a circle tab pass every tab whose span lies inside
\* (0, 360) degrees gets exactly one arc-to-span-start, lift, arc-over-span,
\* plunge sequence of its own; none is dropped, also when the spans of two
\* tabs overlap or coincide.
C8_EveryInsideTabLifted ==
    CircleTabPass =>
        LET inside == {i \in 1..Len(p.tabs) : SpanInside(i)}
        IN  /\ \A i \in inside : Cardinality(HopsOf(i)) = 1
            /\ Cardinality(Lifts) >= Cardinality(inside)

\* what the code does: a tab is hopped exactly when its span starts after the
\* angle reached so far, so a tab whose span starts clear of the tabs sorted
\* before it is never dropped
C8_ClearTabsLifted ==
    CircleTabPass =>
        \A i \in 1..Len(p.tabs) : StartsClear(i) => HopsOf(i) # {}

\* tabs at 90 and 100 degrees with overlapping spans inside (0, 360): the
\* pass has one lift only and no hop across the span of the tab at 100
C8_OverlappingTabDropped ==
    /\ CircleTabPass
    /\ LastRadius = 11000
    /\ Len(p.tabs) = 2
    /\ p.tabs[1].angle = 90
    /\ p.tabs[2].angle = 100
    /\ SpanInside(1) /\ SpanInside(2)
    /\ Cardinality(Lifts) = 1
    /\ HopsOf(2) = {}

\* 0 for a direction of angle in [0, 180), 1 for one in [180, 360)
HalfPlane(v) == IF v.y > 0 \/ (v.y = 0 /\ v.x > 0) THEN 0 ELSE 1

\* the polar angle of u is not greater than that of v, both in [0, 360)
AngleLeq(u, v) ==
    \/ HalfPlane(u) < HalfPlane(v)
    \/ HalfPlane(u) = HalfPlane(v) /\ u.x * v.y - u.y * v.x >= 0

\* the direction, seen from the translated centre, of the angle at which the
\* arc of line k ends: (x - t.x, y - t.y) / r
ArcEndDir(k) ==
    LET t == getTranslation
        s == IF LastRadius < 0 THEN -1 ELSE 1
    IN  Pt(s * (lines[k].x - t.x), s * (lines[k].y - t.y))

FlatArcs == {k \in FlatIdx : lines[k].g = "G3"}

\* no tab span reaches below 0 or beyond 360 degrees
NoStraddle == \A i \in 1..Len(p.tabs) :
                  /\ Min(ArcStart(p.tabs[i]), ArcEnd(p.tabs[i])) >= 0
                  /\ Max(ArcStart(p.tabs[i]), ArcEnd(p.tabs[i])) <= 360000

\* the last arc of the flat path ends at (r + t.x, t.y), where the pass
\* started, and the end angles of the arcs before it never decrease
LoopCloses ==
    LET t == getTranslation
    IN  /\ FlatArcs # {}
        /\ XYMove(lines[FlatLastXY], Pt(LastRadius + t.x, t.y))
        /\ ToolXYBefore(FlatFirst) = Pt(LastRadius + t.x, t.y)
        /\ \A a, b \in FlatArcs \ {FlatLastXY} :
              a < b => AngleLeq(ArcEndDir(a), ArcEndDir(b))

C9_NegativeRadiusBackwards ==
    /\ CircleTabPass
    /\ NoStraddle
    /\ LastRadius = -4000
    /\ Len(p.tabs) = 1
    /\ p.tabs[1].angle = 180
    /\ ~LoopCloses


\* the start point of the shape for the pass just executed
ShapeStart ==
    LET t == getTranslation
    IN  CASE IsRect -> SidePoint("bottom", 0)
          [] p.shape = "circle" -> Pt(LastRadius + t.x, t.y)
          [] OTHER -> Pt(p.sketchPoints[1].x + t.x, p.sketchPoints[1].y + t.y)

\* v has length len (to 2 micrometres) and the direction of d
AlongDir(v, d, len) ==
    /\ AtDistance(v, Pt(0, 0), len)
    /\ Abs(v.x * d.y - v.y * d.x) <= 2 * (Abs(d.x) + Abs(d.y))
    /\ v.x * d.x + v.y * d.y > 0

\* direction of the lead-in tangent: (1,0) rectangle and square, (0,1)
\* circle, first segment P0 -> P1 for a sketch
InDir ==
    CASE IsRect -> Pt(1, 0)
      [] p.shape = "circle" -> Pt(0, 1)
      [] OTHER -> Pt(p.sketchPoints[2].x - p.sketchPoints[1].x,
                     p.sketchPoints[2].y - p.sketchPoints[1].y)

\* direction of the lead-out tangent: (0,-1) rectangle and square, (0,1)
\* circle, closing segment Plast -> P0 for a sketch
OutDir ==
    CASE IsRect -> Pt(0, -1)
      [] p.shape = "circle" -> Pt(0, 1)
      [] OTHER -> LET n == Len(p.sketchPoints)
                  IN  Pt(p.sketchPoints[1].x - p.sketchPoints[n].x,
                         p.sketchPoints[1].y - p.sketchPoints[n].y)

LeadInIdx == {k \in LastPassIdx : lines[k].site = "leadIn"}

LeadOutIdx == {k \in LastPassIdx : lines[k].site = "leadOut"}

Diff(a, b) == Pt(a.x - b.x, a.y - b.y)

\* C10: with leadType = linear and a non-zero leadInLen a non-ramp pass
\* positions the tool at shapeStart - tIn * leadInLen, plunges, and moves
\* linearly to shapeStart before the cut path; with a non-zero leadOutLen it
\* moves linearly to shapeStart + tOut * leadOutLen after the cut path.  tIn
\* and tOut are (1,0) and (0,-1) for rectangle and square, (0,1) and (0,1)
\* for circle, and the unit directions of the first segment and of the
\* closing segment for a sketch.  With leadType = none or a zero length there
\* is no lead move, and without a lead-in the rapid goes to shapeStart.
\* (A sketch has a first and a closing segment when it has two points.)
C10_LinearLead ==
    (/\ JustExecuted /\ p.leadType \in {"none", "linear"}
     /\ p.shape = "sketch" => Len(p.sketchPoints) >= 2) =>
        LET s     == LastPassStart
            hasIn == p.leadType = "linear" /\ p.leadInLen > 0
            hasOut == p.leadType = "linear" /\ p.leadOutLen > 0
            rapid == Pt(lines[s + 1].x, lines[s + 1].y)
            last  == lines[FlatLastXY + 1]
        IN  /\ lines[s + 1].site = "rapidXY"
            /\ Axes(lines[s + 1]) = {"X", "Y"}
            /\ IF hasIn
               THEN /\ AlongDir(Diff(ShapeStart, rapid), InDir, p.leadInLen)
                    /\ ~p.enableRamp =>
                          /\ ZMove(lines[s + 2], currentZ)
                          /\ lines[s + 3].g = "G1"
                          /\ XYMove(lines[s + 3], ShapeStart)
                          /\ LeadInIdx = {s + 3}
                          /\ FlatFirst = s + 4
               ELSE /\ rapid = ShapeStart
                    /\ LeadInIdx = {}
                    /\ ~p.enableRamp =>
                          /\ ZMove(lines[s + 2], currentZ)
                          /\ FlatFirst = s + 3
            /\ IF hasOut
               THEN /\ LeadOutIdx = {FlatLastXY + 1}
                    /\ last.g = "G1"
                    /\ Axes(last) = {"X", "Y"}
                    /\ AlongDir(Diff(Pt(last.x, last.y), ShapeStart), OutDir,
                                p.leadOutLen)
               ELSE LeadOutIdx = {}

\* a sketch pass with 3 mm linear leads: the rapid goes to P0 - 3 * (1, 0),
\* the lead-out ends at P0 + 3 * (-0.8, -0.6)
C10_Witness ==
    /\ JustExecuted
    /\ p.shape = "sketch"
    /\ p.leadType = "linear"
    /\ ~p.enableRamp
    /\ p.leadInLen = mm(3)
    /\ p.leadOutLen = mm(3)
    /\ p.origin = "stock-center"
    /\ XYMove(lines[LastPassStart + 1], Pt(-3000, 0))
    /\ XYMove(lines[LastPassStart + 3], Pt(0, 0))
    /\ XYMove(lines[FlatLastXY + 1], Pt(-2400, -1800))


----------------------------------------------------------------------------
(* Radius leads.  An arc line k is read with the tool where the previous   *)
(* X/Y move left it: start s, centre s + (I, J), end (X, Y).               *)

ArcCentre(k) ==
    LET s == ToolXYBefore(k)
    IN  Pt(s.x + lines[k].i, s.y + lines[k].j)

\* the vector turned by 90 degrees in the direction of travel of arc k:
\* counter-clockwise for G3, clockwise for G2
Turn(k, v) ==
    IF lines[k].g = "G3" THEN Pt(-v.y, v.x) ELSE Pt(v.y, -v.x)

\* arc k sweeps exactly 90 degrees: the radius vector of its end is the
\* radius vector of its start turned by 90 degrees in the direction of travel
Sweeps90(k) ==
    Diff(Pt(lines[k].x, lines[k].y), ArcCentre(k))
        = Turn(k, Diff(ToolXYBefore(k), ArcCentre(k)))

\* direction of travel of arc k where it starts and where it ends
HeadingAtStart(k) == Turn(k, Diff(ToolXYBefore(k), ArcCentre(k)))

HeadingAtEnd(k) == Turn(k, Diff(Pt(lines[k].x, lines[k].y), ArcCentre(k)))

\* the centre the lead arc of length len should have: outward of the wall
\* for outside and center, inward for inside
LeadCentre(len) ==
    IF p.operation = "inside" THEN Pt(ShapeStart.x - len, ShapeStart.y)
    ELSE Pt(ShapeStart.x + len, ShapeStart.y)

\* line k is a 90-degree lead-in arc of radius leadInLen about the lead
\* centre that arrives at the shape start heading +Y
GoodLeadInArc(k) ==
    /\ lines[k].g \in {"G2", "G3"}
    /\ ArcCentre(k) = LeadCentre(p.leadInLen)
    /\ AtDistance(ToolXYBefore(k), ArcCentre(k), p.leadInLen)
    /\ XYMove(lines[k], ShapeStart)
    /\ Sweeps90(k)
    /\ HeadingAtEnd(k) = Pt(0, p.leadInLen)

\* line k is a 90-degree lead-out arc of radius leadOutLen about the lead
\* centre that leaves the shape start heading +Y
GoodLeadOutArc(k) ==
    /\ lines[k].g \in {"G2", "G3"}
    /\ ToolXYBefore(k) = ShapeStart
    /\ ArcCentre(k) = LeadCentre(p.leadOutLen)
    /\ AtDistance(Pt(lines[k].x, lines[k].y), ArcCentre(k), p.leadOutLen)
    /\ Sweeps90(k)
    /\ HeadingAtStart(k) = Pt(0, p.leadOutLen)

\* a circle pass with radius leads has just been executed
RadiusLeadPass == JustExecuted /\ p.shape = "circle" /\ p.leadType = "radius"

\* C11 (as claimed): for a circle with leadType = radius the lead-in arc and
\* the lead-out arc are 90-degree arcs of radius equal to the lead length,
\* centred at start + (len, 0) for outside and center and at start - (len, 0)
\* for inside; the lead-in arrives at the start point heading +Y and the
\* lead-out leaves it heading +Y.
C11_RadiusLeadTangent ==
    RadiusLeadPass =>
        /\ \A k \in LeadInIdx : GoodLeadInArc(k)
        /\ \A k \in LeadOutIdx : GoodLeadOutArc(k)
        /\ (p.leadInLen > 0 /\ ~p.enableRamp) => Cardinality(LeadInIdx) = 1
        /\ p.leadOutLen > 0 => Cardinality(LeadOutIdx) = 1

\* what holds: the lead-out arcs, and the lead-in arc of an inside cut
C11_LeadOutAndInsideLeadIn ==
    RadiusLeadPass =>
        /\ \A k \in LeadOutIdx : GoodLeadOutArc(k)
        /\ p.operation = "inside" => \A k \in LeadInIdx : GoodLeadInArc(k)

\* the lead-in arc of an outside cut is a G3 whose end radius vector is the
\* start radius vector turned clockwise: it sweeps 270 degrees and arrives at
\* the start point heading -Y
C11_OutsideLeadInBackwards ==
    /\ RadiusLeadPass
    /\ p.operation = "outside"
    /\ \E k \in LeadInIdx :
          /\ lines[k].g = "G3"
          /\ ArcCentre(k) = LeadCentre(p.leadInLen)
          /\ ~Sweeps90(k)
          /\ HeadingAtEnd(k) = Pt(0, -p.leadInLen)


----------------------------------------------------------------------------
(* Ramping *)

RampIdx == {k \in LastPassIdx : lines[k].site = "ramp"}

RampFirst == CHOOSE k \in RampIdx : \A j \in RampIdx : k <= j

\* the height the tool was taken to before the ramp of the last pass began
RampStartZ ==
    LET k == CHOOSE k \in LastPassIdx : lines[k].site = "rampStart"
    IN  lines[k].z

\* perimeter of the shape at the offset of the last pass (pi = 355/113),
\* 1 mm when it is not positive
PerimeterAtOffset ==
    LET raw == IF p.shape = "circle" THEN (710 * Abs(LastRadius)) \div 113
               ELSE 4 * Abs(OffW) + 4 * Abs(OffH)
    IN  IF raw <= 0 THEN 1000 ELSE raw

\* moves per trip round the shape
MovesPerLoop == IF p.shape = "circle" THEN 1 ELSE 4

\* length of the sides 1..j of the offset rectangle
CumLen(j) ==
    CASE j = 0 -> 0
      [] j = 1 -> 2 * Abs(OffW)
      [] j = 2 -> 2 * Abs(OffW) + 2 * Abs(OffH)
      [] j = 3 -> 4 * Abs(OffW) + 2 * Abs(OffH)
      [] OTHER -> 4 * Abs(OffW) + 4 * Abs(OffH)

\* a ramped pass of a shape that has a ramp: circle, rectangle, square
RampPass ==
    /\ JustExecuted
    /\ p.enableRamp
    /\ IsRect \/ p.shape = "circle"

\* C13: the ramp of a pass is loops = ceil(distance / perimeter) trips round
\* the shape, distance = |targetZ - rampStartZ| / tan(rampAngle); the Z at the
\* end of loop k is rampStartZ + k * (targetZ - rampStartZ) / loops; Z never
\* increases along the ramp; the last loop ends at exactly targetZ; on a
\* rectangle the side j of loop k ends at the loop's start Z plus the loop's
\* drop times (length of sides 1..j) / perimeter, so that the four sides
\* descend the loop's drop.
C13_RampLoops ==
    RampPass =>
        LET zs    == RampStartZ
            drop  == currentZ - zs
            per   == PerimeterAtOffset
            tan   == TanTable[IF p.rampAngle = 0 THEN 2 ELSE p.rampAngle]
            m     == MovesPerLoop
            loops == Cardinality(RampIdx) \div m
            zAt(k) == lines[RampFirst + k - 1].z
        IN  /\ RampIdx = RampFirst..(RampFirst + loops * m - 1)
            /\ loops >= 1
            /\ drop < 0
            /\ (loops - 1) * per * tan < Abs(drop) * 100000
            /\ Abs(drop) * 100000 <= loops * per * tan
            /\ \A k \in 1..loops :
                  /\ zAt(k * m) = RoundDiv(zs * loops + k * drop, loops)
                  /\ XYMove([lines[RampFirst + k * m - 1] EXCEPT
                                 !.ax = @ \ {"Z"}], ShapeStart)
            /\ zAt(loops * m) = currentZ
            /\ zAt(1) <= zs
            /\ \A k \in 1..(loops * m - 1) : zAt(k + 1) <= zAt(k)
            /\ IsRect =>
                  \A k \in 1..loops : \A j \in 1..4 :
                      /\ zAt((k - 1) * 4 + j)
                            = RoundDiv(zs * loops * per + (k - 1) * drop * per
                                           + drop * CumLen(j),
                                       loops * per)
                      /\ lines[RampFirst + (k - 1) * 4 + j - 1].x
                            = SideEnd(SideNames[j]).x
                      /\ lines[RampFirst + (k - 1) * 4 + j - 1].y
                            = SideEnd(SideNames[j]).y

\* a rectangle ramp of two loops at 1 degree: eight descending moves from
\* +0.5 down to the pass Z
C13_Witness ==
    /\ RampPass
    /\ p.shape = "rectangle"
    /\ p.rampAngle = 1
    /\ currentZ = -1000
    /\ RampStartZ = 500
    /\ Cardinality(RampIdx) = 8
    /\ lines[RampFirst + 3].z = -250
    /\ lines[RampFirst + 7].z = -1000

\* a circle helix of two loops
C13_WitnessCircle ==
    /\ RampPass
    /\ p.shape = "circle"
    /\ Cardinality(RampIdx) = 2
    /\ lines[RampFirst].z = RampStartZ + (currentZ - RampStartZ) \div 2
    /\ lines[RampFirst + 1].z = currentZ


\* the level of the previous depth pass, 0 for the first
PrevLevel == IF Len(ZSeq) <= 1 THEN 0 ELSE ZSeq[Len(ZSeq) - 1]

\* C14 (as claimed): with enableRamp the ramp of every pass starts at the
\* level of the previous depth pass (0 for the first) plus rampClearance,
\* also when the pass Z was clamped to -targetDepth (targetDepth = 10,
\* passDepth = 3: the ramp of the pass at -10 starts at -9 + rampClearance).
C14_RampStartsAtPreviousLevel ==
    RampPass => RampStartZ = PrevLevel + RampClearance

\* what the code does: the ramp starts at currentZ + passDepth + clearance,
\* which is the previous level only when the pass was not clamped
C14_RampStartsPassDepthAbove ==
    RampPass =>
        /\ RampStartZ = currentZ + p.passDepth + RampClearance
        /\ currentZ = PrevLevel - p.passDepth =>
              RampStartZ = PrevLevel + RampClearance

\* targetDepth = 10, passDepth = 3: the ramp of the clamped pass at -10 has
\* started at -7 + 0.5, not at -9 + 0.5
C14_ClampedPassStartsHigh ==
    /\ RampPass
    /\ p.targetDepth = mm(10)
    /\ p.passDepth = mm(3)
    /\ p.rampClearance = 0
    /\ currentZ = -10000
    /\ PrevLevel = -9000
    /\ RampStartZ = -6500


----------------------------------------------------------------------------
(* Facing rows, read from the output *)

Facing == p.opType = "facing"

FacingMarks == {k \in 1..Len(lines) : lines[k].site = "facingPass"}

\* the comment line that opens the facing depth in progress
FacingMark == CHOOSE k \in FacingMarks : \A j \in FacingMarks : j <= k

\* the row cuts of the facing depth in progress
RowIdx == {k \in (FacingMark + 1)..Len(lines) : lines[k].site = "cut"}

NextRow(k) == CHOOSE j \in RowIdx : j > k /\ \A i \in RowIdx : i > k => j <= i

IsLastRow(k) == \A j \in RowIdx : j <= k

\* the box the rows have to stay in, before the origin translation
RowLeft == -(FacingW \div 2) - p.toolDiameter \div 2 - p.passExtX

RowRight == FacingW \div 2 + p.toolDiameter \div 2 + p.passExtX

RowBottom == -(FacingH \div 2) - p.toolDiameter \div 2 - p.passExtY

RowTop == FacingH \div 2 + p.toolDiameter \div 2 + p.passExtY

\* the row loop of the depth in progress has ended
DepthFaced == pc \in {"facing", "footer", "done"}

\* C15: every facing row runs at constant Y from one of X = -(w/2) - r -
\* passExtX and X = (w/2) + r + passExtX to the other; the first row of a
\* depth is at Y = -(h/2) - r - passExtY, each next row is one stepover
\* higher, the last step shortened so that the last row is exactly at
\* Y = (h/2) + r + passExtY, and no move of the depth leaves that box
C15_FacingBounds ==
    (Facing /\ FacingMarks # {}) =>
        LET t == getTranslation
        IN  /\ \A k \in RowIdx :
                  LET from == ToolXYBefore(k)
                  IN  /\ XYMove(lines[k], Pt(lines[k].x, from.y))
                      /\ {from.x - t.x, lines[k].x - t.x} = {RowLeft, RowRight}
                      /\ (\A j \in RowIdx : k <= j) => lines[k].y - t.y = RowBottom
                      /\ ~IsLastRow(k) =>
                            /\ lines[NextRow(k)].y > lines[k].y
                            /\ lines[NextRow(k)].y - t.y
                                 = Min(lines[k].y - t.y + Step, RowTop)
            /\ DepthFaced =>
                  \E k \in RowIdx : IsLastRow(k) /\ lines[k].y - t.y = RowTop
            /\ \A k \in (FacingMark + 1)..Len(lines) :
                  {"X", "Y"} \subseteq lines[k].ax =>
                      /\ lines[k].x - t.x \in RowLeft..RowRight
                      /\ lines[k].y - t.y \in RowBottom..RowTop

\* a faced depth of five rows with pass extensions whose last step was
\* shortened (-8, -3, 2, 7, 8 for a 10 mm high rectangle and a 2 mm tool)
C15_Witness ==
    /\ Facing /\ FacingMarks # {} /\ DepthFaced
    /\ p.passExtY > 0 /\ p.passExtX > 0
    /\ Cardinality(RowIdx) = 5
    /\ \E k \in RowIdx :
          /\ ~IsLastRow(k)
          /\ IsLastRow(NextRow(k))
          /\ lines[NextRow(k)].y - lines[k].y < Step


\* row k is cut from the left end of the box to the right end
LeftToRight(k) ==
    /\ ToolXYBefore(k).x - getTranslation.x = RowLeft
    /\ lines[k].x - getTranslation.x = RowRight

RightToLeft(k) ==
    /\ ToolXYBefore(k).x - getTranslation.x = RowRight
    /\ lines[k].x - getTranslation.x = RowLeft

\* between row k and the next row: one cutting move in Y at the X the row
\* ended at, the tool staying at the pass depth
SteppedOver(k) ==
    /\ NextRow(k) = k + 2
    /\ lines[k + 1].g = "G1"
    /\ XYMove(lines[k + 1], Pt(lines[k].x, lines[NextRow(k)].y))
    /\ lines[k + 1].f = p.feedRate

\* between row k and the next row: retract to safeZ, rapid to the start of the
\* next row, plunge back to the pass depth, in that order
ReturnedAbove(k) ==
    /\ NextRow(k) = k + 4
    /\ ZMove(lines[k + 1], p.safeZ)
    /\ lines[k + 1].g = (IF p.enableRapid THEN "G1" ELSE "G0")
    /\ XYMove(lines[k + 2], Pt(ToolXYBefore(k).x, lines[NextRow(k)].y))
    /\ lines[k + 2].g = (IF p.enableRapid THEN "G1" ELSE "G0")
    /\ ZMove(lines[k + 3], currentZ)
    /\ lines[k + 3].g = "G1"

\* C16: climb cuts every facing row left to right, conventional cuts every row
\* right to left, both alternates the direction row by row with a cutting
\* step-over in Y and no retract; in the one-way modes the tool retracts to
\* safeZ, rapids to the next row's start X at the next Y and re-plunges
C16_FacingDirection ==
    (Facing /\ FacingMarks # {}) =>
        \A k \in RowIdx :
            /\ p.facingDirection = "climb" => LeftToRight(k)
            /\ p.facingDirection = "conventional" => RightToLeft(k)
            /\ p.facingDirection = "both" => LeftToRight(k) \/ RightToLeft(k)
            /\ ~IsLastRow(k) =>
                  IF p.facingDirection = "both"
                  THEN /\ SteppedOver(k)
                       /\ LeftToRight(k) <=> RightToLeft(NextRow(k))
                       /\ RightToLeft(k) <=> LeftToRight(NextRow(k))
                  ELSE /\ ReturnedAbove(k)
                       /\ LeftToRight(k) <=> LeftToRight(NextRow(k))

\* a depth faced in at least three rows, all left to right, with the lifts
\* emulated by G1
C16_Witness ==
    /\ Facing /\ FacingMarks # {} /\ DepthFaced
    /\ p.facingDirection = "climb" /\ p.enableRapid
    /\ Cardinality(RowIdx) >= 3
    /\ \A k \in RowIdx : LeftToRight(k)

\* a depth faced in at least three rows of alternating direction
C16_WitnessBoth ==
    /\ Facing /\ FacingMarks # {} /\ DepthFaced
    /\ p.facingDirection = "both"
    /\ Cardinality(RowIdx) >= 3
    /\ \E k \in RowIdx : LeftToRight(k) /\ ~IsLastRow(k) /\ RightToLeft(NextRow(k))

\* a depth faced right to left
C16_WitnessConventional ==
    /\ Facing /\ FacingMarks # {} /\ DepthFaced
    /\ p.facingDirection = "conventional"
    /\ Cardinality(RowIdx) >= 3
    /\ \A k \in RowIdx : RightToLeft(k)


----------------------------------------------------------------------------
(* Rapid emulation *)

\* the places of generate() that position, retract or lift the tool: the
\* initial and final move to safeZ, the rapid to the start of a pass, stroke
\* or facing row, the move to the ramp start, the retract after a pass, and
\* the lift over a tab or between one-way facing rows
RapidSites == {"safeZ", "footer", "rapidXY", "rampStart", "retract", "lift"}

IsMotion(line) == line.g \in {"G0", "G1", "G2", "G3"}

Positioning == {k \in 1..Len(lines) : IsMotion(lines[k]) /\ lines[k].site \in RapidSites}

\* C17: with enableRapid the output has no G0 at all and every positioning
\* move, retract and lift is a G1 at the rapidXY (X/Y) or rapidZ (Z) feed;
\* without it every such move is a G0 with no feed word; for contour, facing
\* and text runs
C17_RapidEmulation ==
    /\ p.enableRapid =>
          /\ \A k \in 1..Len(lines) : lines[k].g # "G0"
          /\ \A k \in Positioning :
                /\ lines[k].g = "G1"
                /\ "F" \in lines[k].ax
                /\ lines[k].f = (IF "Z" \in lines[k].ax THEN p.rapidZ ELSE p.rapidXY)
    /\ ~p.enableRapid =>
          \A k \in Positioning : lines[k].g = "G0" /\ "F" \notin lines[k].ax

HasSite(s) == \E k \in 1..Len(lines) : lines[k].site = s

\* a finished contour run with rapid emulation that positioned, moved to a
\* ramp start, lifted over a tab and retracted
C17_Witness ==
    /\ pc = "done" /\ p.opType = "contour" /\ p.enableRapid
    /\ \A s \in RapidSites : HasSite(s)

\* the same run without rapid emulation
C17_WitnessG0 ==
    /\ pc = "done" /\ p.opType = "contour" /\ ~p.enableRapid
    /\ \A s \in RapidSites : HasSite(s)

\* a finished one-way facing run with rapid emulation
C17_WitnessFacing ==
    /\ pc = "done" /\ Facing /\ p.enableRapid /\ p.facingDirection = "climb"
    /\ HasSite("lift") /\ HasSite("retract")

\* a finished text run with rapid emulation that engraved a stroke
C17_WitnessText ==
    /\ pc = "done" /\ p.opType = "text" /\ p.enableRapid
    /\ HasSite("cut") /\ HasSite("retract")


----------------------------------------------------------------------------
(* Program framing *)

IdxOf(g) == {k \in 1..Len(lines) : lines[k].g = g}

\* a rapid (or emulated rapid) in Z only, to safeZ
RapidToSafeZ(line) ==
    /\ ZMove(line, p.safeZ)
    /\ line.g = (IF p.enableRapid THEN "G1" ELSE "G0")

\* X/Y motion, or a move in Z below safeZ
CutsOrTravels(line) ==
    /\ IsMotion(line)
    /\ \/ line.ax \cap {"X", "Y"} # {}
       \/ "Z" \in line.ax /\ line.z # p.safeZ

HeaderDone == pc # "start"

\* C18: whatever the opType, G21 and G90 occur exactly once, both before the
\* one M3 S<spindleSpeed>, which is followed by the rapid to safeZ, all before
\* any X/Y motion or plunge; the finished program ends with a rapid to safeZ,
\* M5, M30, in that order, and nothing moves after M5
C18_Framing ==
    /\ HeaderDone =>
          /\ Cardinality(IdxOf("G21")) = 1
          /\ Cardinality(IdxOf("G90")) = 1
          /\ Cardinality(IdxOf("M3")) = 1
          /\ \E a \in IdxOf("G21"), b \in IdxOf("G90"), c \in IdxOf("M3") :
                /\ a < c /\ b < c
                /\ lines[c].ax = {"S"} /\ lines[c].f = p.spindleSpeed
                /\ RapidToSafeZ(lines[c + 1])
                /\ \A k \in 1..Len(lines) : CutsOrTravels(lines[k]) => k > c + 1
    /\ pc = "done" =>
          LET n == Len(lines)
          IN  /\ RapidToSafeZ(lines[n - 2])
              /\ lines[n - 1].g = "M5" /\ lines[n - 1].ax = {}
              /\ lines[n].g = "M30" /\ lines[n].ax = {}
              /\ IdxOf("M5") = {n - 1}
              /\ IdxOf("M30") = {n}
    /\ pc # "done" => IdxOf("M5") = {} /\ IdxOf("M30") = {}

\* a finished text program that engraved strokes
C18_Witness ==
    /\ pc = "done" /\ p.opType = "text"
    /\ \E k \in 1..Len(lines) : CutsOrTravels(lines[k])

\* a finished contour program
C18_WitnessContour ==
    /\ pc = "done" /\ p.opType = "contour"
    /\ \E k \in 1..Len(lines) : CutsOrTravels(lines[k])

\* a finished facing program
C18_WitnessFacing ==
    /\ pc = "done" /\ p.opType = "facing"
    /\ \E k \in 1..Len(lines) : CutsOrTravels(lines[k])


----------------------------------------------------------------------------
(* Two calls compared.  The properties below are stated on `returned`      *)
(* under SpecCalls.                                                        *)

Calls == 1..Len(returned)

OutHasSite(i, s) == \E k \in 1..Len(returned[i].out) : returned[i].out[k].site = s

\* C12: for a square, rectangle or sketch, the call with leadType = radius
\* returns exactly the lines of the call with leadType = linear and the same
\* other parameters
C12_RadiusFallsBackToLinear ==
    \A i, j \in Calls :
        (/\ returned[i].given.shape # "circle"
         /\ returned[i].given.leadType = "radius"
         /\ returned[j].given = [returned[i].given EXCEPT !.leadType = "linear"])
        => returned[i].out = returned[j].out

\* a sketch cut with a lead-in and a lead-out, once with each lead type
C12_Witness ==
    \E i, j \in Calls :
        /\ returned[i].given.shape = "sketch"
        /\ returned[i].given.leadType = "radius"
        /\ returned[j].given = [returned[i].given EXCEPT !.leadType = "linear"]
        /\ OutHasSite(i, "leadIn") /\ OutHasSite(i, "leadOut")
        /\ OutHasSite(j, "leadIn") /\ OutHasSite(j, "leadOut")

\* the same for a rectangle that ramps (the lead-in move is then not emitted)
C12_WitnessRamp ==
    \E i, j \in Calls :
        /\ returned[i].given.shape = "rectangle"
        /\ returned[i].given.enableRamp
        /\ returned[i].given.leadType = "radius"
        /\ returned[j].given = [returned[i].given EXCEPT !.leadType = "linear"]
        /\ OutHasSite(i, "ramp") /\ OutHasSite(i, "leadOut")


\* the translation the origin names: half the stock size (half the shape size
\* for a shape-* origin), signed by the corner
OriginVector(q) ==
    LET shapeOrigins == {"shape-center", "shape-bottom-left", "shape-bottom-right",
                         "shape-top-left", "shape-top-right"}
        w == IF q.origin \in shapeOrigins THEN q.shapeWidth ELSE q.stockWidth
        h == IF q.origin \in shapeOrigins THEN q.shapeHeight ELSE q.stockHeight
    IN  CASE q.origin \in {"stock-bottom-left", "shape-bottom-left"} ->
                 Pt(w \div 2, h \div 2)
          [] q.origin \in {"stock-bottom-right", "shape-bottom-right"} ->
                 Pt(-(w \div 2), h \div 2)
          [] q.origin \in {"stock-top-left", "shape-top-left"} ->
                 Pt(w \div 2, -(h \div 2))
          [] q.origin \in {"stock-top-right", "shape-top-right"} ->
                 Pt(-(w \div 2), -(h \div 2))
          [] OTHER -> Pt(0, 0)

\* the line with its X word moved by dx and its Y word by dy, nothing else
Shifted(line, dx, dy) ==
    [line EXCEPT !.x = IF "X" \in line.ax THEN @ + dx ELSE @,
                 !.y = IF "Y" \in line.ax THEN @ + dy ELSE @]

SameButOrigin(q1, q2) == q2 = [q1 EXCEPT !.origin = q2.origin]

OutHasArc(i) ==
    \E k \in 1..Len(returned[i].out) :
        /\ returned[i].out[k].g \in {"G2", "G3"}
        /\ returned[i].out[k].i # 0

C19_WitnessShape ==
    \E i, j \in Calls :
        /\ returned[i].given.origin = "stock-center"
        /\ returned[j].given.origin = "shape-top-left"
        /\ SameButOrigin(returned[i].given, returned[j].given)
        /\ returned[i].given.opType = "text"
        /\ OutHasSite(i, "cut")


C20_WitnessRectangle ==
    /\ Len(returned) = 2
    /\ returned[1].given = returned[2].given
    /\ returned[1].given.shape = "rectangle"
    /\ Len(returned[2].params.tabs) = 2
    /\ returned[2].params.tabs[1].offset > returned[2].params.tabs[2].offset
    /\ OutHasSite(1, "lift") /\ OutHasSite(2, "lift")

C20_WitnessSketch ==
    /\ Len(returned) = 2
    /\ returned[1].given = returned[2].given
    /\ returned[1].given.shape = "sketch"
    /\ returned[2].params.sketchPoints = Triangle
    /\ OutHasSite(2, "cut")


----------------------------------------------------------------------------
(* Termination.  generate() is one synchronous call: once entered, it runs  *)
(* on until it returns, so every step that is enabled is eventually taken   *)
(* (weak fairness of the next-state relation).  The output of a call that   *)
(* does not return grows without end, and its loop runs on past the         *)
(* MaxLines lines that are recorded of it.                                  *)

\* every line of the call is recorded
AllRecorded == Len(lines) < MaxLines

\* zero and positive pass depths, target depths, stepovers and tool diameters
TermInputs ==
    {[Default EXCEPT !.shape = sh, !.passDepth = pd, !.targetDepth = td] :
        sh \in {"rectangle", "circle"}, pd \in {0, mm(1)}, td \in {0, mm(2)}}
    \cup
    {[Default EXCEPT !.opType = "facing", !.facingDirection = fd,
                     !.passDepth = pd, !.targetDepth = td,
                     !.stepover = so, !.toolDiameter = tl] :
        fd \in {"both", "climb"}, pd \in {0, mm(1)}, td \in {0, mm(2)},
        so \in {0, mm(4)}, tl \in {0, mm(2)}}
    \cup
    {[Default EXCEPT !.opType = "text", !.textObjects = tx] : tx \in Texts}

InitTerm ==
    /\ p \in TermInputs
    /\ pc = "start"
    /\ lines = <<>>
    /\ currentZ = 0
    /\ passOffsets = <<>>
    /\ idx = 0
    /\ y = 0
    /\ cutDir = 1
    /\ given = p
    /\ returned = <<>>
    /\ sketcher = NewSketcher
    /\ event = NoEvent

SpecTerm == InitTerm /\ [][Next]_vars /\ WF_vars(Next)

\* C21: generate() returns for every record with non-negative numbers,
\* passDepth = 0 with targetDepth > 0 and stepover = 0 with toolDiameter = 0
\* included
C21_Terminates == <>(pc = "done")

\* the depth loops advance and the row loop advances
StepsPositive ==
    /\ p.targetDepth > 0 => p.passDepth > 0
    /\ (Facing /\ p.targetDepth > 0 /\ StartY < EndY) => Step > 0

\* generate() returns whenever the loops advance
C21_TerminatesWhenStepsPositive == StepsPositive ~> (pc = "done")

\* a depth loop iteration that leaves currentZ where it was, above the target
C21_DepthLoopStuck ==
    /\ pc \in {"pass", "row"}
    /\ p.passDepth = 0 /\ p.targetDepth > 0
    /\ currentZ = 0
    /\ Cardinality({k \in 1..Len(lines) : lines[k].site \in {"pass", "facingPass"}}) >= 3

\* a facing row loop iteration that leaves y where it was, below endY
C21_RowLoopStuck ==
    /\ pc = "row"
    /\ p.passDepth > 0 /\ Step = 0
    /\ y = StartY /\ y < EndY
    /\ Cardinality(RowIdx) >= 3


----------------------------------------------------------------------------
(* Degenerate geometry *)

\* offset shapes of zero and negative extent (0 x 0 stock, a tool as wide as
\* the shape or wider cutting inside), with tabs and ramping in every
\* combination; a facing run of a 0 x 0 box and a text of size 0
DegenerateInputs ==
    {[Default EXCEPT !.shape = sh, !.operation = v[1], !.width = v[2],
                     !.height = v[2], !.diameter = v[2], !.toolDiameter = v[3],
                     !.enableRamp = rp, !.enableTabs = tb, !.tabWidth = tw,
                     !.tabThickness = mm(1),
                     !.tabs = IF sh = "circle" THEN <<CircleTab(90)>>
                              ELSE <<RectTab("bottom", 50)>>] :
        sh \in {"rectangle", "square", "circle"},
        v \in {<<"center", 0, mm(2)>>, <<"outside", 0, 0>>, <<"outside", 0, mm(2)>>,
               <<"inside", mm(2), mm(2)>>, <<"inside", mm(2), mm(6)>>},
        rp \in BOOLEAN, tb \in BOOLEAN, tw \in {0, mm(4)}}
    \cup
    {[Default EXCEPT !.opType = "facing", !.width = 0, !.height = 0,
                     !.toolDiameter = tl, !.facingDirection = fd] :
        tl \in {0, mm(2)}, fd \in {"both", "climb"}}
    \cup
    {[Default EXCEPT !.opType = "text", !.targetDepth = 0,
                     !.textObjects = <<[text |-> <<"A">>, x |-> 0, y |-> 0,
                                        size |-> 0]>>]}

InitDegenerate ==
    /\ p \in DegenerateInputs
    /\ pc = "start"
    /\ lines = <<>>
    /\ currentZ = 0
    /\ passOffsets = <<>>
    /\ idx = 0
    /\ y = 0
    /\ cutDir = 1
    /\ given = p
    /\ returned = <<>>
    /\ sketcher = NewSketcher
    /\ event = NoEvent

SpecDegenerate == InitDegenerate /\ [][Next]_vars

\* C22: every X, Y, Z, I, J value of the output is a number, whatever the
\* extents of the offset shape and whether or not tabs and ramping are on
C22_FiniteNumbers ==
    \A k \in 1..Len(lines) : lines[k].nan = {}

\* the same when a rectangle of zero width and height is not ramped
C22_FiniteUnlessRampedPoint ==
    \A k \in 1..Len(lines) :
        lines[k].nan # {} =>
            /\ p.enableRamp /\ IsRect
            /\ HalfW(p.shape, FinishOffset) = 0 /\ HalfH(p.shape, FinishOffset) = 0
            /\ lines[k].site = "ramp" /\ lines[k].nan = {"Z"}

\* a ramp round a rectangle of zero width and height: Z is not a number
C22_RampRoundPoint ==
    /\ JustExecuted /\ p.enableRamp /\ p.shape = "square"
    /\ p.operation = "inside" /\ p.width = p.toolDiameter
    /\ \E k \in LastPassIdx : lines[k].site = "ramp" /\ "Z" \in lines[k].nan

\* degenerate tab passes that stay finite: a circle of radius 0 and a
\* rectangle of zero size, with tabs, not ramped
C22_PointWithTabs ==
    /\ pc = "done" /\ ~p.enableRamp /\ p.enableTabs
    /\ p.width = 0 /\ p.toolDiameter = 0
    /\ \A k \in 1..Len(lines) : lines[k].nan = {}


----------------------------------------------------------------------------
(* Order of the steps of one contour pass *)

\* the Z of the tool before line k: the Z word of the last line that has one
ToolZBefore(k) ==
    LET j == CHOOSE j \in 1..(k - 1) :
                 /\ "Z" \in lines[j].ax
                 /\ \A i \in (j + 1)..(k - 1) : "Z" \notin lines[i].ax
    IN  lines[j].z

\* the place of a line in the body of a pass
StepOf(line) ==
    CASE line.site \in PassMarks                 -> 0
      [] line.site = "rapidXY"                   -> 1
      [] line.site \in {"plunge", "rampStart", "ramping"} -> 2
      [] line.site = "leadIn"                    -> 3
      [] line.site = "ramp"                      -> 4
      [] line.site \in FlatSites                 -> 5
      [] line.site = "leadOut"                   -> 6
      [] line.site = "retract"                   -> 7
      [] OTHER                                   -> 8

\* the steps of the last pass come in the order: positioning in X/Y, plunge
\* (or, ramping, the move to the ramp start height and the ramp loops, with
\* no lead-in), lead-in, path, lead-out, retract
StepsInOrder ==
    LET s == LastPassStart
        n == Len(lines)
    IN  /\ \A j, k \in LastPassIdx : j < k => StepOf(lines[j]) <= StepOf(lines[k])
        /\ \A k \in LastPassIdx : StepOf(lines[k]) < 8
        /\ s + 2 <= n
        /\ lines[s + 1].site = "rapidXY" /\ Axes(lines[s + 1]) = {"X", "Y"}
        /\ \A k \in (s + 2)..n : lines[k].site # "rapidXY"
        /\ IF p.enableRamp
           THEN /\ lines[s + 2].site = "rampStart"
                /\ ZMove(lines[s + 2], currentZ + p.passDepth + RampClearance)
                /\ \A k \in LastPassIdx : lines[k].site \notin {"plunge", "leadIn"}
                /\ lines[n].site = "retract" /\ ZMove(lines[n], p.safeZ)
           ELSE /\ lines[s + 2].site = "plunge"
                /\ ZMove(lines[s + 2], currentZ)
                /\ \A k \in LastPassIdx : lines[k].site \notin {"rampStart", "ramp"}
        /\ \A k \in (s + 3)..n :
              lines[k].site \in {"plunge", "rampStart"} => FALSE

\* the path and the leads of the last pass are cut at the Z of the pass
CutsAtPassZ ==
    \A k \in LastPassIdx :
        lines[k].site \in {"leadIn", "cut", "leadOut"} =>
            /\ "Z" \notin lines[k].ax
            /\ ToolZBefore(k) = currentZ

\* ramping, the loops come down to the Z of the pass
RampReachesPassZ ==
    p.enableRamp =>
        \E k \in LastPassIdx :
            /\ lines[k].site = "ramp" /\ "Z" \in lines[k].ax /\ lines[k].z = currentZ
            /\ \A j \in LastPassIdx : lines[j].site = "ramp" => j <= k

\* the finished contour program leaves the tool at safeZ
EndsAtSafeZ ==
    (pc = "done" /\ p.opType = "contour") => ToolZBefore(Len(lines) + 1) = p.safeZ

\* C23 (as claimed): each contour pass emits its steps in a fixed order:
\* rapid X/Y to the start, plunge to the pass Z, lead-in, path, lead-out, then
\* a retract or the next pass; ramping: rapid X/Y, rapid Z to the ramp start
\* height, ramp loops down to the pass Z, a flat pass at the pass Z, lead-out,
\* retract to safeZ. No cutting move precedes the plunge or the ramp of its
\* pass, and the finished program leaves the tool at safeZ.
C23_PassOrder ==
    /\ JustExecuted => StepsInOrder /\ CutsAtPassZ /\ RampReachesPassZ
    /\ EndsAtSafeZ

\* the same, except that a ramped sketch has no ramp loop and is cut at the
\* ramp start height
C23_PassOrderButRampedSketch ==
    /\ JustExecuted =>
          /\ StepsInOrder
          /\ ~(p.enableRamp /\ p.shape = "sketch") => CutsAtPassZ /\ RampReachesPassZ
    /\ EndsAtSafeZ

\* a ramped sketch pass: no ramp move, and the polygon is cut above the level
\* of the previous pass
C23_RampedSketchCutsAir ==
    /\ JustExecuted /\ p.enableRamp /\ p.shape = "sketch"
    /\ \A k \in LastPassIdx : lines[k].site # "ramp"
    /\ \E k \in LastPassIdx :
          lines[k].site = "cut" /\ ToolZBefore(k) = currentZ + p.passDepth + RampClearance

\* passes where the order is as claimed: a ramped circle with a lead-out, and
\* a plunged rectangle with both leads
C23_RampedCircleInOrder ==
    /\ JustExecuted /\ p.enableRamp /\ p.shape = "circle"
    /\ \E k \in LastPassIdx : lines[k].site = "leadOut"
    /\ StepsInOrder /\ CutsAtPassZ /\ RampReachesPassZ

C23_PlungedRectangleInOrder ==
    /\ JustExecuted /\ ~p.enableRamp /\ IsRect
    /\ \E k \in LastPassIdx : lines[k].site = "leadIn"
    /\ \E k \in LastPassIdx : lines[k].site = "leadOut"
    /\ StepsInOrder /\ CutsAtPassZ


----------------------------------------------------------------------------
(* Sketch path *)

\* the cutting moves of the path of the last pass, in their order
RECURSIVE CutsFrom(_)
CutsFrom(k) ==
    IF k > Len(lines) THEN <<>>
    ELSE IF lines[k].site = "cut" THEN <<k>> \o CutsFrom(k + 1)
    ELSE CutsFrom(k + 1)

PathCuts == CutsFrom(LastPassStart)

SketchPoint(k) ==
    LET t == getTranslation
    IN  Pt(p.sketchPoints[k].x + t.x, p.sketchPoints[k].y + t.y)

\* a linear cut in X/Y only, at the feed rate, to pt
LinearCutTo(line, pt) ==
    /\ line.g = "G1" /\ line.ax = {"X", "Y", "F"}
    /\ line.x = pt.x /\ line.y = pt.y /\ line.f = p.feedRate

\* the path of the last pass is the polygon: cuts to points 1..n-1 in their
\* order, then one closing cut to point 0, and nothing between them
PolygonCut ==
    LET n == Len(p.sketchPoints)
        c == PathCuts
    IN  IF n >= 2
        THEN /\ Len(c) = n
             /\ \A k \in 1..(n - 1) : LinearCutTo(lines[c[k]], SketchPoint(k + 1))
             /\ LinearCutTo(lines[c[n]], SketchPoint(1))
             /\ \A k \in 1..(n - 1) : c[k + 1] = c[k] + 1
        ELSE Len(c) = 0

\* the tool is at point 0 when the first cut of the path begins
StartsAtPoint0 ==
    Len(p.sketchPoints) >= 2 => ToolXYBefore(PathCuts[1]) = SketchPoint(1)

\* a lead-in is asked for: a lead type and a positive length
LeadInGiven == p.leadType \notin {"", "none"} /\ p.leadInLen # 0

\* C24 (as claimed): for a sketch of n >= 2 points each pass starts at point 0
\* (plus the translation), cuts to points 1..n-1 in input order and closes
\* with one cut back to point 0: n cutting moves, the last one ending where
\* the pass started; a sketch of fewer than 2 points has no cutting move
C24_SketchPolygon ==
    (JustExecuted /\ p.shape = "sketch") => PolygonCut /\ StartsAtPoint0

\* the same, except that a ramped pass with a lead-in starts its first cut
\* at the start of the lead-in
C24_SketchPolygonButRampedLead ==
    (JustExecuted /\ p.shape = "sketch") =>
        /\ PolygonCut
        /\ ~(p.enableRamp /\ LeadInGiven) => StartsAtPoint0

\* a ramped pass of a sketch with a lead-in: the first cut of the polygon
\* begins at the start of the lead-in, which is not point 0
C24_StartsAtLeadIn ==
    /\ JustExecuted /\ p.shape = "sketch" /\ Len(p.sketchPoints) = 3
    /\ p.enableRamp /\ p.leadType = "linear" /\ p.leadInLen > 0
    /\ ToolXYBefore(PathCuts[1]) # SketchPoint(1)
    /\ \A k \in LastPassIdx : lines[k].site # "leadIn"

\* passes that are as claimed: a polygon of 4 points cut after a lead-in, away
\* from the centre origin, and sketches of one point and of none
C24_QuadCut ==
    /\ JustExecuted /\ p.shape = "sketch" /\ Len(p.sketchPoints) = 4
    /\ ~p.enableRamp /\ p.leadType = "linear" /\ p.origin # "stock-center"
    /\ PolygonCut /\ StartsAtPoint0 /\ Len(PathCuts) = 4

C24_NoCutBelowTwoPoints ==
    /\ JustExecuted /\ p.shape = "sketch" /\ Len(p.sketchPoints) = 1
    /\ Len(PathCuts) = 0


----------------------------------------------------------------------------
(* Text engraving: where the characters are traced *)

TextRun == p.opType = "text" /\ pc = "footer"

\* the lines generateText() added
TextPart == SubSeq(lines, Len(HeaderLines) + 1, Len(lines))

\* the points of the cuts that follow one another from line k on
RECURSIVE CutRun(_, _)
CutRun(s, k) ==
    IF k > Len(s) \/ s[k].site # "cut" THEN <<>>
    ELSE <<Pt(s[k].x, s[k].y)>> \o CutRun(s, k + 1)

\* the strokes drawn from line k on: for every rapid X/Y, its end and the
\* ends of the cuts after the plunge that follows it
RECURSIVE StrokesFrom(_, _)
StrokesFrom(s, k) ==
    IF k > Len(s) THEN <<>>
    ELSE IF s[k].site = "rapidXY"
    THEN <<(<<Pt(s[k].x, s[k].y)>> \o CutRun(s, k + 2))>> \o StrokesFrom(s, k + 1)
    ELSE StrokesFrom(s, k + 1)

\* the capital of a character that has one, else the character
Capital(char) == IF Len(UpperOf(char)) = 1 THEN UpperOf(char)[1] ELSE char

\* the strokes of a glyph whose origin is the k-th cursor position of obj
\* (k from 0): x + t.x + 8 * (size / 10) * k, y + t.y
GlyphAt(glyph, obj, k) ==
    LET t    == getTranslation
        ox   == (obj.x + t.x) * 100 + 80 * obj.size * k
        oy   == (obj.y + t.y) * 100
    IN  [j \in 1..Len(glyph) |->
            [i \in 1..Len(glyph[j]) |->
                Pt(ToFixed3(ox + glyph[j][i].x * obj.size, 100),
                   ToFixed3(oy + glyph[j][i].y * obj.size, 100))]]

\* the strokes of the characters k.. (k from 0) of chars, each at its own
\* cursor position
RECURSIVE StrokesOfChars(_, _, _)
StrokesOfChars(chars, obj, k) ==
    IF k >= Len(chars) THEN <<>>
    ELSE GlyphAt(getCharacterPath(chars[k + 1]), obj, k)
         \o StrokesOfChars(chars, obj, k + 1)

AsTyped(obj) == [k \in 1..Len(obj.text) |-> Capital(obj.text[k])]

AsUpperCased(obj) == ToUpperCase(obj.text)

\* the strokes of all text objects from object n on, the characters of an
\* object being those of its upper-cased text, or those of the text as typed
RECURSIVE StrokesOfObjects(_, _)
StrokesOfObjects(n, upperCased) ==
    IF n > Len(p.textObjects) THEN <<>>
    ELSE LET obj == p.textObjects[n]
         IN  StrokesOfChars(IF upperCased THEN AsUpperCased(obj) ELSE AsTyped(obj),
                            obj, 0)
             \o StrokesOfObjects(n + 1, upperCased)

\* every stroke is: rapid X/Y, plunge to -targetDepth at half the feed, cuts
\* at the feed, retract to safeZ; every rapid X/Y is made at safeZ; there is
\* no other move
StrokeShape ==
    LET s == TextPart
        n == Len(s)
        off == Len(HeaderLines)
    IN  \A k \in 1..n :
            /\ s[k].site \in {"text", "rapidXY", "plunge", "cut", "retract"}
            /\ s[k].site = "rapidXY" =>
                  /\ Axes(s[k]) = {"X", "Y"}
                  /\ ToolZBefore(off + k) = p.safeZ
                  /\ k < n /\ s[k + 1].site = "plunge"
            /\ s[k].site = "plunge" =>
                  /\ s[k].g = "G1" /\ ZMove(s[k], -p.targetDepth)
                  /\ s[k].f = p.feedRate \div 2
                  /\ s[k - 1].site = "rapidXY"
                  /\ k < n /\ s[k + 1].site \in {"cut", "retract"}
            /\ s[k].site = "cut" =>
                  /\ s[k].g = "G1" /\ s[k].ax = {"X", "Y", "F"}
                  /\ s[k].f = p.feedRate
                  /\ k < n /\ s[k + 1].site \in {"cut", "retract"}
            /\ s[k].site = "retract" =>
                  /\ ZMove(s[k], p.safeZ)
                  /\ s[k - 1].site \in {"plunge", "cut"}
            /\ s[k].site = "text" =>
                  (k > 1 => s[k - 1].site \in {"text", "retract"})

\* C25 (as claimed): in a text run the k-th character of the text of an
\* object {text, x, y, size}, blanks and characters outside the font counted,
\* is traced with its glyph origin at x + t.x + 8 * (size / 10) * k; a
\* character outside the font emits nothing; every stroke is a rapid X/Y to
\* its first point, a plunge to -targetDepth, cuts through its other points,
\* a retract to safeZ; every rapid X/Y is made at safeZ and there is no
\* offset, lead or tab move
C25_TextAsTyped ==
    TextRun =>
        /\ StrokeShape
        /\ StrokesFrom(TextPart, 1) = StrokesOfObjects(1, FALSE)

\* C25 (amended): the same, the characters counted and traced being those of
\* text.toUpperCase(), which is longer than the text where the upper case of
\* a character is two characters
C25_TextUpperCased ==
    TextRun =>
        /\ StrokeShape
        /\ StrokesFrom(TextPart, 1) = StrokesOfObjects(1, TRUE)

\* a text of lower-case letters, a blank and a dash: the dash is the fourth
\* character, its stroke starts 3 * 8 * 0.5 + 1 * 0.5 to the right of x
C25_Witness ==
    /\ TextRun /\ p.origin = "stock-center"
    /\ Len(p.textObjects) = 1 /\ Len(p.textObjects[1].text) = 4
    /\ \E k \in 1..Len(TextPart) :
          /\ TextPart[k].site = "rapidXY"
          /\ TextPart[k].x = mm(-4) + 12000 + 500
          /\ TextPart[k].y = mm(2) + 2500

\* two objects, one holding a character outside the font, away from the
\* centre origin
C25_WitnessSkipped ==
    /\ TextRun /\ p.origin # "stock-center" /\ Len(p.textObjects) = 2
    /\ Len(StrokesFrom(TextPart, 1)) = 5

\* the sharp s is traced as two S, and the A after it at the third cursor
\* position: 1 + 2 * 8 = 17 mm, not 1 + 8 = 9 mm
C25_SharpS ==
    /\ TextRun /\ p.origin = "stock-center"
    /\ Len(p.textObjects) = 1 /\ p.textObjects[1].text = <<"ß", "A">>
    /\ Len(StrokesFrom(TextPart, 1)) = 4
    /\ StrokesFrom(TextPart, 1)[3][1] = Pt(17000, 0)


----------------------------------------------------------------------------
(* On which passes the tool is lifted over the tabs *)

\* C26 (as claimed): the tool is lifted over a tab only on a pass whose Z is
\* strictly above -(targetDepth - tabThickness) - 0.001: on the passes
\* shallower than the band of the tab, never on deeper ones
C26_LiftsOnlyAboveBand ==
    JustExecuted =>
        (Lifts # {} => currentZ > -(p.targetDepth - p.tabThickness) - TabEps)

\* C26 (amended): the tool is lifted over a tab only on a pass whose Z is
\* strictly below -(targetDepth - tabThickness) - 0.001: on the passes that
\* cut into the band of the tab, never on shallower ones, and every lift goes
\* to the top of the band
C26_LiftsOnlyBelowTabTop ==
    JustExecuted =>
        /\ Lifts # {} => currentZ < -(p.targetDepth - p.tabThickness) - TabEps
        /\ \A k \in Lifts : ZMove(lines[k], -(p.targetDepth - p.tabThickness))

\* a pass 1 mm below the top of the band (Z = -9, top at -8) has lifted
C26_Witness ==
    /\ JustExecuted /\ p.enableTabs
    /\ p.targetDepth = mm(10) /\ p.tabThickness = mm(2)
    /\ currentZ = mm(-9)
    /\ Lifts # {}

\* in the same run the pass above the band (Z = -6) has cut across the tab
\* without a lift
C26_WitnessShallow ==
    /\ JustExecuted /\ p.enableTabs /\ IsRect
    /\ p.targetDepth = mm(10) /\ p.tabThickness = mm(2) /\ p.tabWidth > 0
    /\ \E i \in 1..Len(p.tabs) : HasSpan(p.tabs[i])
    /\ currentZ = mm(-6)
    /\ Lifts = {}

\* the flat pass that follows a ramp lifts as well
C26_WitnessRamped ==
    /\ JustExecuted /\ p.enableTabs /\ p.enableRamp
    /\ Lifts # {}
    /\ currentZ < -(p.targetDepth - p.tabThickness) - TabEps


----------------------------------------------------------------------------
(* Height of the tool at a rapid in X/Y *)

RapidsXY == {k \in 1..Len(lines) : lines[k].site = "rapidXY"}

\* C27 (as claimed): at every rapid X/Y positioning move the tool is at
\* safeZ: the last command before it that moves Z is a move to safeZ; for
\* contour runs of several depths, with roughing offsets and with leads
C27_RapidXYAtSafeZ ==
    \A k \in RapidsXY : ToolZBefore(k) = p.safeZ

\* the same, except for the first rapid X/Y of a depth of a contour run
\* without ramping, which follows the finish pass of the depth before and is
\* made at the Z of that depth
C27_RapidXYAtSafeZButNextDepth ==
    \A k \in RapidsXY :
        ToolZBefore(k) # p.safeZ =>
            /\ p.opType = "contour" /\ ~p.enableRamp
            /\ lines[k - 2].site = "pass"
            /\ lines[k - 3].site # "safeZ"
            /\ ToolZBefore(k) < 0
            /\ ToolZBefore(k) > lines[k - 2].z

\* the second depth of a run with a roughing pass and leads: the tool leaves
\* the lead-out of the finish pass at Z = -1 for the start of the roughing
\* lead-in, in another place, without a retract
C27_RapidAtDepth ==
    /\ pc = "done" /\ p.opType = "contour" /\ ~p.enableRamp
    /\ p.roughingPasses > 0 /\ p.enableRoughing /\ p.leadType = "linear"
    /\ \E k \in RapidsXY :
          /\ ToolZBefore(k) < 0
          /\ ToolXYBefore(k) # Pt(lines[k].x, lines[k].y)
          /\ lines[k - 1].site = "roughingPass"

\* runs whose rapids are all at safeZ: ramped, and of one depth
C27_RampedAtSafeZ ==
    /\ pc = "done" /\ p.opType = "contour" /\ p.enableRamp
    /\ Cardinality(RapidsXY) >= 2
    /\ \A k \in RapidsXY : ToolZBefore(k) = p.safeZ


----------------------------------------------------------------------------
(* Tabs of one side of a rectangle whose spans meet *)

\* the lines of side k of the flat path of a tab pass
SideRange(k) == SideFirst(k)..(SideFirst(k) + SideLines(k) - 1)

\* how far pt is along a side, from the corner where the side starts and in
\* the direction in which the side is cut
DistAlong(name, pt) ==
    LET t   == getTranslation
        d   == CASE name = "bottom" -> pt.x - t.x + OffW
                 [] name = "right"  -> pt.y - t.y + OffH
                 [] name = "top"    -> OffW - (pt.x - t.x)
                 [] name = "left"   -> OffH - (pt.y - t.y)
    IN  IF SideLength(name) < 0 THEN -d ELSE d

\* the stretch a..b of a side (a point when a = b) has a point strictly
\* inside the span of a tab of that side
InsideASpan(name, a, b) ==
    \E i \in SpanTabs(name) :
        LET s == SpanStart(p.tabs[i])
            e == SpanEnd(p.tabs[i])
        IN  IF a = b THEN s < a /\ a < e
            ELSE Max(a, b) > s /\ Min(a, b) < e

RectTabPass == JustExecuted /\ IsRect /\ BelowTabTop

\* line j, of the side `name`, keeps clear of the tabs: it does not go back
\* along the side, and it is not below the tab top at a point strictly inside
\* a span
KeepsClear(name, j) ==
    LET from  == DistAlong(name, ToolXYBefore(j))
        to    == IF {"X", "Y"} \subseteq lines[j].ax
                 THEN DistAlong(name, Pt(lines[j].x, lines[j].y)) ELSE from
        zFrom == ToolZBefore(j)
        zTo   == IF "Z" \in lines[j].ax THEN lines[j].z ELSE zFrom
    IN  /\ to >= from
        /\ Min(zFrom, zTo) < TabTopZ => ~InsideASpan(name, from, to)

\* the spans of the tabs of each side lie apart (they may touch)
SpansApart ==
    \A i, j \in 1..Len(p.tabs) :
        (i # j /\ p.tabs[i].side = p.tabs[j].side
         /\ HasSpan(p.tabs[i]) /\ HasSpan(p.tabs[j])) =>
            \/ SpanEnd(p.tabs[i]) <= SpanStart(p.tabs[j])
            \/ SpanEnd(p.tabs[j]) <= SpanStart(p.tabs[i])

\* C28 (as claimed): on a rectangle tab pass, whatever the tabs of a side
\* (overlapping spans and equal offsets included), the tool is never below
\* tabTopZ at a position strictly inside the span of a tab of that side, and
\* the position along a side never moves backwards
C28_TabSpansKept ==
    RectTabPass =>
        \A k \in 1..4 : \A j \in SideRange(k) : KeepsClear(SideNames[k], j)

\* the same for tabs whose spans lie apart on every side
C28_TabSpansKeptWhenApart ==
    (RectTabPass /\ SpansApart) =>
        \A k \in 1..4 : \A j \in SideRange(k) : KeepsClear(SideNames[k], j)

\* tabs at 50 % and 60 % of the bottom side of 22 mm, 4 mm wide: spans 9..13
\* and 11.2..15.2.  After the hop over the first the tool plunges at 13,
\* inside the second, and cuts back to 11.2 at the pass Z
C28_CutsBackThroughTab ==
    /\ RectTabPass /\ p.shape = "rectangle" /\ p.operation = "outside"
    /\ p.origin = "stock-center" /\ p.tabWidth = mm(4)
    /\ p.tabs = <<RectTab("bottom", 50), RectTab("bottom", 60)>>
    /\ \E j \in SideRange(1) :
          /\ lines[j].site = "cut"
          /\ ToolZBefore(j) = currentZ
          /\ ToolXYBefore(j) = Pt(-11000 + 13000, -6000)
          /\ XYMove(lines[j], Pt(-11000 + 11200, -6000))

\* two tabs at the same offset: the span 9..13 is hopped, cut back through at
\* the pass Z, and hopped again
C28_SameOffsetCutThrough ==
    /\ RectTabPass /\ p.tabWidth = mm(4)
    /\ p.tabs = <<RectTab("bottom", 50), RectTab("bottom", 50)>>
    /\ \E j \in SideRange(1) : ~KeepsClear("bottom", j)

\* two tabs of one side with spans apart, both hopped and kept
C28_ApartKept ==
    /\ RectTabPass /\ SpansApart /\ p.tabWidth = mm(4)
    /\ p.tabs = <<RectTab("bottom", 0), RectTab("bottom", 50)>>
    /\ Cardinality(Lifts) = 2
    /\ \A j \in SideRange(1) : KeepsClear("bottom", j)


----------------------------------------------------------------------------
(* Ramping over tabs *)

\* the side a ramp move of a rectangle runs along: the moves of a loop go to
\* the corners in the order of the sides
RampSide(j) ==
    SideNames[((Cardinality({i \in RampIdx : i <= j}) - 1) % 4) + 1]

\* a move from `from`, at zFrom, to `to`, at zTo, is below the tab top when
\* it is at d (from < to, from <= d <= to)
BelowTabTopAt(from, to, zFrom, zTo, d) ==
    zFrom * (to - from) + (zTo - zFrom) * (d - from) < TabTopZ * (to - from)

\* the ramp move j of a rectangle is below the tab top somewhere strictly
\* inside the span of a tab of its side: it descends, so it is lowest where
\* it leaves the span
RampCutsRectTab(j) ==
    LET name  == RampSide(j)
        from  == DistAlong(name, ToolXYBefore(j))
        to    == DistAlong(name, Pt(lines[j].x, lines[j].y))
        zFrom == ToolZBefore(j)
        zTo   == lines[j].z
    IN  \E i \in SpanTabs(name) :
            LET lo == Max(SpanStart(p.tabs[i]), from)
                hi == Min(SpanEnd(p.tabs[i]), to)
            IN  from < to /\ lo < hi /\ BelowTabTopAt(from, to, zFrom, zTo, hi)

\* the helical loop j of a circle, a full turn from zFrom down to lines[j].z,
\* is below the tab top where it leaves the span of a tab (angles in
\* hundredths of a degree)
RampCutsCircleTab(j) ==
    \E i \in 1..Len(p.tabs) :
        /\ SpanInside(i)
        /\ ArcStart(p.tabs[i]) < ArcEnd(p.tabs[i])
        /\ BelowTabTopAt(0, 36000, ToolZBefore(j), lines[j].z,
                         ArcEnd(p.tabs[i]) \div 10)

\* a move of the flat path of a rectangle is below the tab top strictly
\* inside a span
FlatCutsRectTab ==
    \E k \in 1..4 : \E j \in SideRange(k) :
        LET name  == SideNames[k]
            from  == DistAlong(name, ToolXYBefore(j))
            to    == IF {"X", "Y"} \subseteq lines[j].ax
                     THEN DistAlong(name, Pt(lines[j].x, lines[j].y)) ELSE from
            zFrom == ToolZBefore(j)
            zTo   == IF "Z" \in lines[j].ax THEN lines[j].z ELSE zFrom
        IN  Min(zFrom, zTo) < TabTopZ /\ InsideASpan(name, from, to)

\* the flat path of a circle, which goes round once, has no hop across the
\* span of a tab
FlatCutsCircleTab ==
    \E i \in 1..Len(p.tabs) :
        SpanInside(i) /\ ArcStart(p.tabs[i]) < ArcEnd(p.tabs[i]) /\ HopsOf(i) = {}

RampedTabPass == JustExecuted /\ p.enableRamp /\ BelowTabTop

\* C29 (as claimed): with tabs and ramping both on, on a pass below the tab
\* top no move of the pass, of the ramp loops or of the flat pass after them,
\* is below tabTopZ = -(targetDepth - tabThickness) inside a tab span
C29_RampKeepsTabs ==
    RampedTabPass =>
        /\ IsRect =>
              /\ \A j \in RampIdx : ~RampCutsRectTab(j)
              /\ ~FlatCutsRectTab
        /\ (p.shape = "circle" /\ LastRadius > 0) =>
              /\ \A j \in RampIdx : ~RampCutsCircleTab(j)
              /\ ~FlatCutsCircleTab

\* what holds: the flat pass after the ramp keeps the tabs whose spans lie
\* apart
C29_FlatPassKeepsTabs ==
    RampedTabPass =>
        /\ (IsRect /\ SpansApart) => ~FlatCutsRectTab
        /\ (p.shape = "circle" /\ LastRadius > 0) =>
              \A i \in 1..Len(p.tabs) :
                  (SpanInside(i) /\ StartsClear(i)) => HopsOf(i) # {}

\* a rectangle with a tab in the middle of the top side, ramped at 2 degrees
\* from -1.5 to -3: the one loop passes the tab top (-2) on the right side
\* and runs along the whole top side below it; the flat pass then hops the tab
C29_RampCutsTab ==
    /\ RampedTabPass /\ p.shape = "rectangle" /\ p.rampAngle = 2
    /\ p.tabs = <<RectTab("top", 50)>> /\ currentZ = mm(-3)
    /\ Cardinality(RampIdx) = 4
    /\ \E j \in RampIdx :
          /\ RampSide(j) = "top" /\ RampCutsRectTab(j)
          /\ ToolZBefore(j) < TabTopZ
    /\ ~FlatCutsRectTab /\ Cardinality(Lifts) = 1

\* a circle with a tab at 90 degrees ramped at 1 degree: the last helical
\* loop is below the tab top all the way round
C29_HelixCutsTab ==
    /\ RampedTabPass /\ p.shape = "circle" /\ p.rampAngle = 1
    /\ p.tabs = <<CircleTab(90)>>
    /\ \E j \in RampIdx : ToolZBefore(j) < TabTopZ /\ RampCutsCircleTab(j)
    /\ ~FlatCutsCircleTab


----------------------------------------------------------------------------
(* Sketcher: clicks, mode changes, grid changes and clear()                *)

\* events handled in one run of the canvas
MaxEvents == 6

\* Math.round(n / d) for d > 0: to the nearest integer, halves upwards
MathRound(n, d) == (2 * n + d) \div (2 * d)

\* snap(pos): pos is screenToLogic of the mouse position, in tenths of a
\* millimetre; the result is on the grid, in millimetres
snap(pos, gridSize) ==
    Pt(MathRound(pos.x, 10 * gridSize) * gridSize,
       MathRound(pos.y, 10 * gridSize) * gridSize)

\* the closing test taken from two points on (C30 fails of it)
ClosesFromTwoPoints(points, pt) ==
    /\ Len(points) > 1
    /\ (pt.x - points[1].x) * (pt.x - points[1].x)
       + (pt.y - points[1].y) * (pt.y - points[1].y) < 25

\* lines 90-94: more than 2 points and the snapped position less than 5 mm
\* from the first of them
Closes(points, pt) ==
    /\ Len(points) > 2
    /\ (pt.x - points[1].x) * (pt.x - points[1].x)
       + (pt.y - points[1].y) * (pt.y - points[1].y) < 25

getPoints == IF sketcher.isClosed THEN sketcher.points ELSE <<>>

getTextObjects == sketcher.textObjects

\* where the mouse is pressed (screenToLogic of it, tenths of a millimetre):
\* 3 mm and 10 mm right of the centre, and 10 mm right and 10 mm below; what
\* the zoom does to a position on the screen is part of this choice
ClickSpots == {Pt(30, 0), Pt(100, 0), Pt(100, 100)}

\* the value of the text field: empty, or a letter
TypedTexts == {<<>>, <<"A">>}

Handled(op, at) == [n |-> event.n + 1, op |-> op, at |-> at]

\* setMode(mode)
SetMode ==
    \E m \in {"vertex", "text"} :
        /\ event.n < MaxEvents
        /\ sketcher' = [sketcher EXCEPT !.mode = m]
        /\ event' = Handled("setMode", Pt(0, 0))
        /\ UNCHANGED generatorVars

\* onClick(e), lines 65-106
OnClick ==
    \E e \in ClickSpots, text \in TypedTexts :
        LET pt == snap(e, sketcher.gridSize)
        IN  /\ event.n < MaxEvents
            /\ sketcher' =
                  IF sketcher.mode = "text"
                  THEN IF text # <<>>
                       THEN [sketcher EXCEPT !.textObjects =
                                Append(@, [text |-> text, x |-> pt.x,
                                           y |-> pt.y, size |-> 10])]
                       ELSE sketcher
                  ELSE IF sketcher.isClosed THEN sketcher
                  ELSE IF Closes(sketcher.points, pt)
                  THEN [sketcher EXCEPT !.isClosed = TRUE]
                  ELSE [sketcher EXCEPT !.points = Append(@, pt)]
            /\ event' = Handled("click", pt)
            /\ UNCHANGED generatorVars

\* clear(), lines 246-252
Clear ==
    /\ event.n < MaxEvents
    /\ sketcher' = [sketcher EXCEPT !.points = <<>>, !.textObjects = <<>>,
                                    !.isClosed = FALSE]
    /\ event' = Handled("clear", Pt(0, 0))
    /\ UNCHANGED generatorVars

\* changeGrid(delta), lines 276-280; the buttons give 5 and -5
ChangeGrid ==
    \E delta \in {5, -5} :
        /\ event.n < MaxEvents
        /\ sketcher' = [sketcher EXCEPT !.gridSize =
                            IF @ + delta < 1 THEN 1 ELSE @ + delta]
        /\ event' = Handled("changeGrid", Pt(0, 0))
        /\ UNCHANGED generatorVars

InitSketcher ==
    /\ sketcher = NewSketcher
    /\ event = NoEvent
    /\ p = Default
    /\ pc = "start"
    /\ lines = <<>>
    /\ currentZ = 0
    /\ passOffsets = <<>>
    /\ idx = 0
    /\ y = 0
    /\ cutDir = 1
    /\ given = p
    /\ returned = <<>>

NextSketcher ==
    \/ SetMode
    \/ OnClick
    \/ Clear
    \/ ChangeGrid

SpecSketcher == InitSketcher /\ [][NextSketcher]_vars

\* getPoints() is empty while the polygon is open, and a closed polygon has
\* at least 3 points
ClosedHasThree ==
    /\ getPoints # <<>> => sketcher.isClosed
    /\ sketcher.isClosed => Len(sketcher.points) >= 3

\* one event: the polygon closes only at a click in vertex mode, with more
\* than 2 points, whose position is less than 5 mm from point 0, and that
\* click adds no point; while the polygon is closed no click changes the
\* points and only clear() does; clear() empties the points and the text
\* objects and reopens the polygon
SketcherStep ==
    /\ (~sketcher.isClosed /\ sketcher'.isClosed) =>
          /\ event'.op = "click"
          /\ sketcher.mode = "vertex"
          /\ Len(sketcher.points) > 2
          /\ (event'.at.x - sketcher.points[1].x) * (event'.at.x - sketcher.points[1].x)
             + (event'.at.y - sketcher.points[1].y) * (event'.at.y - sketcher.points[1].y)
             < 25
          /\ sketcher'.points = sketcher.points
    /\ (sketcher.isClosed /\ event'.op = "click") =>
          sketcher'.points = sketcher.points /\ sketcher'.isClosed
    /\ (sketcher.isClosed /\ sketcher'.points # sketcher.points) =>
          event'.op = "clear"
    /\ (sketcher.isClosed /\ ~sketcher'.isClosed) => event'.op = "clear"
    /\ event'.op = "clear" =>
          /\ sketcher'.points = <<>>
          /\ sketcher'.textObjects = <<>>
          /\ ~sketcher'.isClosed

\* C30: after any sequence of clicks, mode changes, grid changes and clear()
\* calls, getPoints() is non-empty only if the polygon is closed; a closed
\* polygon has at least 3 points; the polygon closes only at a vertex-mode
\* click less than 5 mm from point 0 when more than 2 points exist, and that
\* click adds no point; once closed, no click changes the points until
\* clear(), which empties points and text objects and reopens the polygon
C30_SketcherStateMachine ==
    [](ClosedHasThree) /\ [][SketcherStep]_vars

\* a triangle has been closed by a fourth click, on point 0
C30_Witness ==
    /\ sketcher.isClosed /\ Len(getPoints) = 3
    /\ event.op = "click" /\ event.n = 4
    /\ event.at = sketcher.points[1]

\* a triangle closed on the 1 mm grid by a click beside point 0, not on it
C30_WitnessNearby ==
    /\ sketcher.isClosed /\ sketcher.gridSize = 1
    /\ event.op = "click" /\ event.at # sketcher.points[1]

\* a closed polygon clicked again in vertex mode, unchanged; and a canvas
\* cleared after a text was placed on a closed polygon
C30_WitnessClickOnClosed ==
    /\ sketcher.isClosed /\ sketcher.mode = "vertex"
    /\ event.op = "click" /\ event.n = 5 /\ Len(sketcher.points) = 3

C30_WitnessCleared ==
    /\ event.op = "clear" /\ event.n = 6
    /\ sketcher.points = <<>> /\ ~sketcher.isClosed /\ sketcher.mode = "text"

====
